---- MODULE Spec2Model ----
(***************************************************************************)
(* Knowledge graph, hash tracker, file watcher and sync pipeline of the    *)
(* knowledge-management backend (backend/knowledge, backend/agent).        *)
(*                                                                         *)
(* Text is modelled as sequences of one-character strings so that          *)
(* lower(), substring tests and separator replacement are computed.        *)
(* SHA-256 is modelled as an injective function of the hashed text: the    *)
(* hash of a text is the text itself, tagged.                              *)
(***************************************************************************)
EXTENDS Integers, Sequences, FiniteSets, TLC

(***************************************************************************)
(* Bounds of the model.                                                    *)
(***************************************************************************)
MaxEdits == 2        \* file-system edits by the user in one behaviour
MaxRuns == 2         \* syncs and restarts in one behaviour

\* The capacity the watcher's queue is specified to have.  The default is
\* 1024; the model takes a capacity that two renames exceed.
watcher_queue_capacity == 3

(***************************************************************************)
(* Strings.                                                                *)
(***************************************************************************)
NoStr == << >>
S_Ab == <<"A", "b">>
S_ab == <<"a", "b">>
S_Cd == <<"C", "d">>
S_Zz == <<"Z", "z">>
S_n1 == <<"n", "1">>
S_n2 == <<"n", "2">>

LowerChar(c) ==
    CASE c = "A" -> "a"
      [] c = "C" -> "c"
      [] c = "Z" -> "z"
      [] OTHER -> c

Lower(s) == [i \in 1..Len(s) |-> LowerChar(s[i])]

IsSubstring(a, b) ==
    \E i \in 0..(Len(b) - Len(a)) : SubSeq(b, i + 1, i + Len(a)) = a

ReplaceSeparators(s) ==
    [i \in 1..Len(s) |-> IF s[i] \in {"-", "_"} THEN " " ELSE s[i]]

RECURSIVE Strip(_)
Strip(s) ==
    IF s = << >> THEN s
    ELSE IF Head(s) = " " THEN Strip(Tail(s))
    ELSE IF s[Len(s)] = " " THEN Strip(SubSeq(s, 1, Len(s) - 1))
    ELSE s

HasSlash(s) == \E i \in 1..Len(s) : s[i] = "/"

(***************************************************************************)
(* Note files.  A path is its folder under the notes root, its stem and    *)
(* its extension.  A file's text is a record of the parts the parser       *)
(* distinguishes: the front-matter keys, the first heading, the remaining  *)
(* text, the wiki-links, the typed relationships and the hashtags.         *)
(***************************************************************************)
F_ideas == <<"i", "d", "e", "a", "s">>
P1 == [folder |-> F_ideas, stem |-> S_n1, ext |-> "md"]
P2 == [folder |-> NoStr, stem |-> S_n2, ext |-> "md"]
Paths == {P1, P2}

NoFile == [fm |-> FALSE, fmTitle |-> NoStr, fmCategory |-> "", fmTags |-> {},
           fmParent |-> NoStr, fmDate |-> FALSE, h1 |-> NoStr, text |-> "#nofile", links |-> {},
           rels |-> {}, hashtags |-> {}]

Plain(h1, text, links, rels, hashtags) ==
    [fm |-> FALSE, fmTitle |-> NoStr, fmCategory |-> "", fmTags |-> {},
     fmParent |-> NoStr, fmDate |-> FALSE, h1 |-> h1, text |-> text, links |-> links,
     rels |-> rels, hashtags |-> hashtags]

WithFm(title, category, tags, parent, body) ==
    [body EXCEPT !.fm = TRUE, !.fmTitle = title, !.fmCategory = category,
                 !.fmTags = tags, !.fmParent = parent]

\* The body of a text: what _parse_frontmatter returns as body_content.
Body(c) ==
    [c EXCEPT !.fm = FALSE, !.fmTitle = NoStr, !.fmCategory = "",
              !.fmTags = {}, !.fmParent = NoStr, !.fmDate = FALSE]

\* A text whose front matter has a key with an unquoted date, as in
\* "created: 2024-01-01": yaml.safe_load reads the value as a datetime.date.
WithDate(c) == [c EXCEPT !.fm = TRUE, !.fmDate = TRUE]

\* _parse_frontmatter's metadata, as far as _save_graph tells dicts apart:
\* "json" when json.dump can write every value, "date" when one is a date.
ParseMetadata(c) == IF c.fm /\ c.fmDate THEN "date" ELSE "json"

\* Texts the user writes into note files.
T_A1 == WithFm(S_Ab, "Learning", {"ml"}, NoStr, Plain(NoStr, "t1", {S_Cd}, {}, {}))
T_B1 == Plain(S_Cd, "t1", {S_ab, S_Zz}, {<<"child_of", S_Ab>>}, {"ml"})
T_B2 == Plain(S_Cd, "t2", {S_ab, S_Zz}, {<<"child_of", S_Ab>>}, {"ml"})
Texts == {T_A1, T_B1, T_B2}

\* The notes directory when the process is first started: empty, one note,
\* or two notes of which one names the other.
InitialTrees ==
    {[p \in Paths |-> NoFile],
     [p \in Paths |-> IF p = P1 THEN T_A1 ELSE NoFile],
     [p \in Paths |-> IF p = P1 THEN T_B1 ELSE T_A1]}

(***************************************************************************)
(* Hashes and ids.                                                         *)
(***************************************************************************)
\* hash_utils.calculate_content_hash: SHA-256 of a text.
calculate_content_hash(text) == <<"sha256", text>>

\* ParsedNote._calculate_content_hash: title|content|category|sorted(tags).
ParsedHash(title, body, category, tags) == <<title, body, category, tags>>

\* ParsedNote._generate_deterministic_id: "note_" + content_hash.
NoteId(content_hash) == <<"note_", content_hash>>

\* f"note_{title}": the id the parser invents for a title it has not seen.
NameId(title) == <<"note_", <<title, Body(NoFile), "#title", {}>> >>

\* A front-matter parent string used as the key of the hierarchy index.
RawKey(s) == <<"", <<s, Body(NoFile), "#raw", {}>> >>
NoParent == RawKey(NoStr)

NoId == <<"", <<NoStr, Body(NoFile), "#none", {}>> >>

(***************************************************************************)
(* Python dicts.  A dict whose iteration order the code depends on is a    *)
(* sequence of entries in insertion order; the others are functions.       *)
(***************************************************************************)
EmptyMap == [k \in {} |-> {}]
Get(f, k, default) == IF k \in DOMAIN f THEN f[k] ELSE default
Put(f, k, v) == [x \in (DOMAIN f) \cup {k} |-> IF x = k THEN v ELSE f[x]]
Del(f, k) == [x \in (DOMAIN f) \ {k} |-> f[x]]

NodeIds(nodes) == {nodes[i].id : i \in DOMAIN nodes}
NodeOf(nodes, id) == nodes[CHOOSE i \in DOMAIN nodes : nodes[i].id = id]
NodeSet(nodes, n) ==
    IF n.id \in NodeIds(nodes)
    THEN [i \in DOMAIN nodes |-> IF nodes[i].id = n.id THEN n ELSE nodes[i]]
    ELSE Append(nodes, n)
NodeDel(nodes, id) == SelectSeq(nodes, LAMBDA n : n.id # id)

TitleKeys(titles) == {titles[i].title : i \in DOMAIN titles}
TitleGet(titles, t) == titles[CHOOSE i \in DOMAIN titles : titles[i].title = t].id
TitleSet(titles, t, id) ==
    IF t \in TitleKeys(titles)
    THEN [i \in DOMAIN titles |->
            IF titles[i].title = t THEN [title |-> t, id |-> id] ELSE titles[i]]
    ELSE Append(titles, [title |-> t, id |-> id])
TitleDel(titles, t) == SelectSeq(titles, LAMBDA e : e.title # t)

\* The first entry of an ordered dict that satisfies Test, or none.
FirstIndex(seq, Test(_)) ==
    IF \E i \in DOMAIN seq : Test(seq[i])
    THEN CHOOSE i \in DOMAIN seq :
            /\ Test(seq[i])
            /\ \A j \in 1..(i - 1) : ~Test(seq[j])
    ELSE 0

(***************************************************************************)
(* markdown_parser.MarkdownParser                                          *)
(***************************************************************************)
\* _extract_title: front-matter title, else a first heading of level 1,
\* else the file's stem.
ExtractTitle(c, path) ==
    IF c.fmTitle # NoStr THEN c.fmTitle
    ELSE IF c.h1 # NoStr THEN c.h1
    ELSE path.stem

\* _extract_category: front-matter category, else the folder table, else
\* "Quick Notes".
ExtractCategory(c, path) ==
    IF c.fmCategory # "" THEN c.fmCategory
    ELSE IF path.folder = F_ideas THEN "Ideas to Develop"
    ELSE "Quick Notes"

\* _extract_tags: front-matter tags and hashtags of the body.
ExtractTags(c) == c.fmTags \cup c.hashtags

\* _parse_wiki_links: every [[...]] of the body, the ones inside typed
\* relationship tokens included.
ParseWikiLinks(c) == c.links \cup {r[2] : r \in c.rels}

\* _parse_relationships: ids are looked up in note_id_mapping by title, and
\* invented as "note_<title>" for a title not parsed before.
ParseRelationships(nim, c, source_title) ==
    {[source_id |-> Get(nim, source_title, NameId(source_title)),
      target_id |-> Get(nim, r[2], NameId(r[2])),
      relation_type |-> r[1]] : r \in c.rels}

\* _extract_hierarchy: the parent of the note.
ExtractParent(c, relationships) ==
    IF \E r \in relationships : r.relation_type = "child_of"
    THEN (CHOOSE r \in relationships : r.relation_type = "child_of").target_id
    ELSE IF c.fmParent # NoStr THEN RawKey(c.fmParent)
    ELSE NoParent

\* parse_file: the ParsedNote of a file.
ParseFile(nim, path, c) ==
    LET title == ExtractTitle(c, path)
        category == ExtractCategory(c, path)
        tags == ExtractTags(c)
        relationships == ParseRelationships(nim, c, title)
        hash == ParsedHash(title, Body(c), category, tags)
    IN  [id |-> NoteId(hash), title |-> title, category |-> category,
         tags |-> tags, content_hash |-> hash,
         wiki_links |-> ParseWikiLinks(c), relationships |-> relationships,
         parent |-> ExtractParent(c, relationships),
         metadata |-> ParseMetadata(c)]

\* parse_file's effect on the parser: note_id_mapping[title] = id.
ParseFileMapping(nim, path, c) ==
    LET pn == ParseFile(nim, path, c) IN Put(nim, pn.title, pn.id)

(***************************************************************************)
(* markdown_parser.LinkCache: outgoing_links and incoming_links map an id  *)
(* to a set of ids, link_metadata maps a (source, target) pair to the      *)
(* metadata of the link.                                                   *)
(***************************************************************************)
NoLinks ==
    [outgoing_links |-> EmptyMap, incoming_links |-> EmptyMap,
     link_metadata |-> EmptyMap]

\* metadata=None, or a dict that is empty.
NoMetadata == "none"

\* LinkCache.add_link
add_link(lc, source_id, target_id, metadata) ==
    [outgoing_links |-> Put(lc.outgoing_links, source_id,
                            Get(lc.outgoing_links, source_id, {}) \cup {target_id}),
     incoming_links |-> Put(lc.incoming_links, target_id,
                            Get(lc.incoming_links, target_id, {}) \cup {source_id}),
     link_metadata |-> IF metadata # NoMetadata
                       THEN Put(lc.link_metadata, <<source_id, target_id>>, metadata)
                       ELSE lc.link_metadata]

\* dict.pop(key, None) for every key of a set.
PopAll(f, keys) == [k \in (DOMAIN f) \ keys |-> f[k]]

\* set.discard(id) on the sets of the keys in keys that the dict has.
DiscardFrom(index, keys, id) ==
    [k \in DOMAIN index |-> IF k \in keys THEN index[k] \ {id} ELSE index[k]]

\* LinkCache.remove_note, first half: the note's outgoing links.
RemoveOutgoing(lc, note_id) ==
    IF note_id \notin DOMAIN lc.outgoing_links THEN lc
    ELSE [outgoing_links |-> Del(lc.outgoing_links, note_id),
          incoming_links |-> DiscardFrom(lc.incoming_links,
                                         lc.outgoing_links[note_id], note_id),
          link_metadata |-> PopAll(lc.link_metadata,
                                   {<<note_id, target>> :
                                        target \in lc.outgoing_links[note_id]})]

\* LinkCache.remove_note, second half: the note's incoming links.
RemoveIncoming(lc, note_id) ==
    IF note_id \notin DOMAIN lc.incoming_links THEN lc
    ELSE [outgoing_links |-> DiscardFrom(lc.outgoing_links,
                                         lc.incoming_links[note_id], note_id),
          incoming_links |-> Del(lc.incoming_links, note_id),
          link_metadata |-> PopAll(lc.link_metadata,
                                   {<<source, note_id>> :
                                        source \in lc.incoming_links[note_id]})]

\* remove_note that deletes the note's own keys and nothing else.
remove_own_keys(lc, note_id) ==
    [lc EXCEPT !.outgoing_links = Del(lc.outgoing_links, note_id),
               !.incoming_links = Del(lc.incoming_links, note_id)]

\* LinkCache.remove_note
remove_note(lc, note_id) == RemoveIncoming(RemoveOutgoing(lc, note_id), note_id)

\* LinkCache.find_orphans
find_orphans(lc) ==
    ((DOMAIN lc.outgoing_links) \cup (DOMAIN lc.incoming_links))
        \ (DOMAIN lc.incoming_links)

\* MarkdownParser._update_link_cache: a link for every wiki-link of the
\* note, then one for every typed relationship.
RECURSIVE AddLinks(_, _, _)
AddLinks(lc, links, metadata) ==
    IF links = {} THEN lc
    ELSE LET l == CHOOSE x \in links : TRUE
         IN  AddLinks(add_link(lc, l[1], l[2], metadata), links \ {l}, metadata)

UpdateLinkCache(lc, nim, note) ==
    AddLinks(AddLinks(lc, {<<note.id, Get(nim, target, NameId(target))>> :
                               target \in note.wiki_links},
                      "wiki_link"),
             {<<rel.source_id, rel.target_id>> : rel \in note.relationships},
             "typed_relationship")

(***************************************************************************)
(* enhanced_knowledge_graph.EnhancedKnowledgeGraph.  The operators take    *)
(* and return the graph as a record g of its dicts.                        *)
(***************************************************************************)
EmptyGraph ==
    [nodes |-> << >>, titles |-> << >>, cat |-> EmptyMap, tag |-> EmptyMap,
     hier |-> EmptyMap, edges |-> {}, coll |-> {}]

GraphNode(path, pn) ==
    [id |-> pn.id, title |-> pn.title, category |-> pn.category,
     tags |-> pn.tags, content_hash |-> pn.content_hash, file_path |-> path,
     parent_id |-> pn.parent, metadata |-> pn.metadata]

\* _update_indexes without its loop over the tags.
UpdateTagIndexSkipped(tag, node) == tag

\* _update_indexes: the loop over the node's tags.
UpdateTagIndex(tag, node) ==
    [t \in (DOMAIN tag) \cup node.tags |->
        IF t \in node.tags THEN Get(tag, t, {}) \cup {node.id} ELSE tag[t]]

UpdateIndexes(g, node) ==
    [g EXCEPT
       !.cat = Put(g.cat, node.category, Get(g.cat, node.category, {}) \cup {node.id}),
       !.tag = UpdateTagIndex(g.tag, node),
       !.hier = IF node.parent_id # NoParent
                THEN Put(g.hier, node.parent_id,
                         Get(g.hier, node.parent_id, {}) \cup {node.id})
                ELSE g.hier]

AddToChroma(g, node) == [g EXCEPT !.coll = g.coll \cup {node.id}]

AddRelationships(g, relationships) == [g EXCEPT !.edges = g.edges \cup relationships]

\* _add_parsed_note up to _update_indexes: the node is put into nodes_by_id,
\* title_to_id and the indexes.
StoreNode(g, node) ==
    UpdateIndexes([g EXCEPT !.nodes = NodeSet(g.nodes, node),
                            !.titles = TitleSet(g.titles, node.title, node.id)],
                  node)

AddParsedNote(g, path, pn) ==
    AddRelationships(AddToChroma(StoreNode(g, GraphNode(path, pn)),
                                 GraphNode(path, pn)),
                     pn.relationships)

\* str(relative_path).replace('.md', ''): the path as a wiki-link target.
WikiPath(path) ==
    IF path.folder = NoStr THEN path.stem ELSE path.folder \o <<"/">> \o path.stem

\* target.split('/')[-1]
RECURSIVE LastSegment(_)
LastSegment(s) == IF HasSlash(s) THEN LastSegment(Tail(s)) ELSE s

\* _resolve_wiki_link_target: the id a wiki-link target resolves to, or NoId.
RECURSIVE ResolveWikiLinkTarget(_, _)
ResolveWikiLinkTarget(g, target) ==
    LET target_lower == Lower(target)
        cleaned_target == Strip(ReplaceSeparators(target))
        ByPath(n) == \/ WikiPath(n.file_path) = target
                     \/ Lower(WikiPath(n.file_path)) = target_lower
        ByCase(e) == Lower(e.title) = target_lower
        ByPart(e) == \/ IsSubstring(target_lower, Lower(e.title))
                     \/ IsSubstring(Lower(e.title), target_lower)
        ByClean(e) == Lower(cleaned_target) = Lower(Strip(ReplaceSeparators(e.title)))
        iPath == IF HasSlash(target) THEN FirstIndex(g.nodes, ByPath) ELSE 0
        iCase == FirstIndex(g.titles, ByCase)
        iPart == FirstIndex(g.titles, ByPart)
        iClean == FirstIndex(g.titles, ByClean)
    IN  IF target \in TitleKeys(g.titles) THEN TitleGet(g.titles, target)
        ELSE IF iPath # 0 THEN g.nodes[iPath].id
        ELSE IF iCase # 0 THEN g.titles[iCase].id
        ELSE IF iPart # 0 THEN g.titles[iPart].id
        ELSE IF iClean # 0 THEN g.titles[iClean].id
        ELSE IF HasSlash(target) THEN ResolveWikiLinkTarget(g, LastSegment(target))
        ELSE NoId

\* The wiki-link edges _resolve_wiki_links creates for one node: the links
\* are those of the node's file as it is now, the source is the node's id.
WikiEdgesOf(g, fs, node) ==
    IF fs[node.file_path] = NoFile THEN {}
    ELSE {[source_id |-> node.id, target_id |-> ResolveWikiLinkTarget(g, t),
           relation_type |-> "wiki_link"] :
            t \in {u \in ParseWikiLinks(fs[node.file_path]) :
                        ResolveWikiLinkTarget(g, u) # NoId}}

\* _resolve_wiki_links: every node whose file exists is parsed again and an
\* edge is added for each of its links that resolves.
ResolveWikiLinks(g, fs) ==
    [g EXCEPT !.edges = g.edges \cup
        UNION {WikiEdgesOf(g, fs, g.nodes[i]) : i \in DOMAIN g.nodes}]

\* The parser's note_id_mapping after _resolve_wiki_links has parsed the
\* files of nodes[i..] in order.
RECURSIVE ResolveMapping(_, _, _, _)
ResolveMapping(nim, nodes, fs, i) ==
    IF i > Len(nodes) THEN nim
    ELSE LET p == nodes[i].file_path
             nim1 == IF fs[p] = NoFile THEN nim ELSE ParseFileMapping(nim, p, fs[p])
         IN  ResolveMapping(nim1, nodes, fs, i + 1)

\* set.discard under a key that stays in the dict.
Discard(index, key, id) ==
    IF key \in DOMAIN index THEN [index EXCEPT ![key] = @ \ {id}] ELSE index

\* set.discard, deleting the key when its set becomes empty.
DiscardPrune(index, key, id) ==
    IF key \notin DOMAIN index THEN index
    ELSE IF index[key] \ {id} = {} THEN Del(index, key)
    ELSE [index EXCEPT ![key] = @ \ {id}]

RECURSIVE DiscardAll(_, _, _, _)
DiscardAll(index, keys, id, prune) ==
    IF keys = {} THEN index
    ELSE LET k == CHOOSE x \in keys : TRUE
         IN  DiscardAll(IF prune THEN DiscardPrune(index, k, id)
                                 ELSE Discard(index, k, id),
                        keys \ {k}, id, prune)

RemoveEdgesOf(edges, id) == {e \in edges : e.source_id # id /\ e.target_id # id}

\* _remove_node_from_graph without the deletion from title_to_id.
RemoveNodeKeepTitle(g, node_id) ==
    LET g1 == IF node_id \in NodeIds(g.nodes)
              THEN LET node == NodeOf(g.nodes, node_id)
                   IN  [g EXCEPT !.cat = Discard(g.cat, node.category, node_id),
                                 !.tag = DiscardAll(g.tag, node.tags, node_id, FALSE),
                                 !.hier = Discard(g.hier, node.parent_id, node_id),
                                 !.nodes = NodeDel(g.nodes, node_id)]
              ELSE g
    IN  [g1 EXCEPT !.edges = RemoveEdgesOf(g1.edges, node_id),
                   !.coll = g1.coll \ {node_id}]

\* file_watcher.KnowledgeGraphWatcher._remove_node_from_graph
RemoveNodeFromGraph(g, node_id) ==
    LET g1 == IF node_id \in NodeIds(g.nodes)
              THEN LET node == NodeOf(g.nodes, node_id)
                   IN  [g EXCEPT !.titles = TitleDel(g.titles, node.title),
                                 !.cat = Discard(g.cat, node.category, node_id),
                                 !.tag = DiscardAll(g.tag, node.tags, node_id, FALSE),
                                 !.hier = Discard(g.hier, node.parent_id, node_id),
                                 !.nodes = NodeDel(g.nodes, node_id)]
              ELSE g
    IN  [g1 EXCEPT !.edges = RemoveEdgesOf(g1.edges, node_id),
                   !.coll = g1.coll \ {node_id}]

\* knowledge_agent.KnowledgeAgent._remove_file_from_graph, its graph part.
RemoveFileFromGraph(g, file_path) ==
    LET i == FirstIndex(g.nodes, LAMBDA n : n.file_path = file_path)
    IN  IF i = 0 THEN g
        ELSE LET node == g.nodes[i]
             IN  [g EXCEPT
                    !.coll = g.coll \ {node.id},
                    !.nodes = NodeDel(g.nodes, node.id),
                    !.titles = TitleDel(g.titles, node.title),
                    !.cat = DiscardPrune(g.cat, node.category, node.id),
                    !.tag = DiscardAll(g.tag, node.tags, node.id, TRUE),
                    !.hier = IF node.parent_id # NoParent
                             THEN DiscardPrune(g.hier, node.parent_id, node.id)
                             ELSE g.hier,
                    !.edges = RemoveEdgesOf(g.edges, node.id)]

\* find_broken_links: the edges whose target is not a node.
find_broken_links(g) == {e \in g.edges : e.target_id \notin NodeIds(g.nodes)}

(***************************************************************************)
(* hash_utils.HashTracker: hash_cache maps a key to its hash and metadata  *)
(* title, note_to_node_mapping maps a note path to a node id.              *)
(***************************************************************************)
\* update_hash that keeps the hash an identifier already has.
update_hash_once(hc, identifier, content_hash, title) ==
    Put(hc, identifier,
        [hash |-> IF identifier \in DOMAIN hc THEN hc[identifier].hash
                  ELSE content_hash,
         title |-> title])

update_hash(hc, identifier, content_hash, title) ==
    Put(hc, identifier, [hash |-> content_hash, title |-> title])

cleanup_stale_entries(f, valid_identifiers) ==
    [k \in (DOMAIN f) \cap valid_identifiers |-> f[k]]

\* has_content_changed
has_content_changed(hc, identifier, current_content) ==
    \/ identifier \notin DOMAIN hc
    \/ hc[identifier].hash # calculate_content_hash(current_content)

(***************************************************************************)
(* notes_manager.NotesManager                                              *)
(***************************************************************************)
\* _determine_category_from_path
DetermineCategoryFromPath(path) ==
    IF path.folder = F_ideas THEN "Ideas to Develop" ELSE "Quick Notes"

\* _parse_note_file: the Note of a file.
ParseNoteFile(path, c) ==
    LET content == IF c.fm THEN Body(c) ELSE c
    IN  [path |-> path,
         title |-> IF c.fmTitle # NoStr THEN c.fmTitle
                   ELSE IF c.h1 # NoStr THEN c.h1 ELSE path.stem,
         content |-> content,
         category |-> DetermineCategoryFromPath(path),
         tags |-> c.fmTags,
         content_hash |-> calculate_content_hash(content)]

\* _load_note_from_cache: the Note built from the hash cache's entry.
LoadNoteFromCache(hc, path, c) ==
    [path |-> path, title |-> hc[path].title, content |-> c,
     category |-> DetermineCategoryFromPath(path), tags |-> {},
     content_hash |-> hc[path].hash]

\* The Note _scan_existing_notes puts in notes_index for a file.
ScannedNote(hc, path, c) ==
    IF ~has_content_changed(hc, path, c)
    THEN LoadNoteFromCache(hc, path, c)
    ELSE ParseNoteFile(path, c)

\* Directory walks list the files of the root before those of its folders.
ScanOrder == <<P2, P1>>

Existing(fs, order) == SelectSeq(order, LAMBDA p : fs[p] # NoFile)

\* rglob("*.md")
MdFiles(fs, order) == SelectSeq(Existing(fs, order), LAMBDA p : p.ext = "md")

\* _scan_existing_notes: hash cache after the scan of the files in order.
RECURSIVE ScanExistingNotes(_, _, _, _)
ScanExistingNotes(hc, fs, order, i) ==
    IF i > Len(order) THEN hc
    ELSE LET p == order[i]
             note == ScannedNote(hc, p, fs[p])
             hc1 == IF has_content_changed(hc, p, fs[p])
                    THEN update_hash(hc, p, note.content_hash, note.title)
                    ELSE hc
         IN  ScanExistingNotes(hc1, fs, order, i + 1)

(***************************************************************************)
(* Graph operations that walk a list of files.                             *)
(***************************************************************************)
\* ParsedNote built by add_note_from_content.
ContentNote(title, content, category, tags) ==
    LET hash == ParsedHash(title, content, category, tags)
    IN  [id |-> NoteId(hash), title |-> title, category |-> category,
         tags |-> tags, content_hash |-> hash, wiki_links |-> {},
         relationships |-> {}, parent |-> NoParent, metadata |-> "json"]

\* add_note_from_content
AddNoteFromContent(g, note) ==
    AddParsedNote(g, note.path,
                  ContentNote(note.title, note.content, note.category, note.tags))

\* The parsed notes of the files in order, each parse seeing the
\* note_id_mapping left by the parses before it.
RECURSIVE ParseAll(_, _, _, _)
ParseAll(nim, fs, order, i) ==
    IF i > Len(order) THEN << >>
    ELSE <<ParseFile(nim, order[i], fs[order[i]])>> \o
         ParseAll(ParseFileMapping(nim, order[i], fs[order[i]]), fs, order, i + 1)

RECURSIVE MappingAfterAll(_, _, _, _)
MappingAfterAll(nim, fs, order, i) ==
    IF i > Len(order) THEN nim
    ELSE MappingAfterAll(ParseFileMapping(nim, order[i], fs[order[i]]), fs, order, i + 1)

RECURSIVE AddAllParsed(_, _, _, _)
AddAllParsed(g, order, parsed, i) ==
    IF i > Len(order) THEN g
    ELSE AddAllParsed(AddParsedNote(g, order[i], parsed[i]), order, parsed, i + 1)

\* _load_graph: the node records of the file in order, indexes updated.
RECURSIVE LoadNodes(_, _, _)
LoadNodes(g, nodes, i) ==
    IF i > Len(nodes) THEN g
    ELSE LET node == nodes[i]
             g1 == [g EXCEPT !.nodes = NodeSet(g.nodes, node),
                             !.titles = TitleSet(g.titles, node.title, node.id)]
         IN  LoadNodes(UpdateIndexes(g1, node), nodes, i + 1)

\* _load_graph.  No file, or a file json.load cannot read: nothing is
\* loaded.  Otherwise the node records are loaded in order, then the edge
\* records; the first record that does not fit the dataclass raises, the
\* except clause ends the load and what was loaded before stays.  bad is
\* the position of that record among the nodes, Len(nodes) + 1 when it is
\* the first edge record, 0 when every record fits.
LoadGraph(g, snap) ==
    IF snap.state # "ok" THEN g
    ELSE IF snap.bad = 0
    THEN [LoadNodes(g, snap.nodes, 1) EXCEPT !.edges = g.edges \cup snap.edges]
    ELSE IF snap.bad <= Len(snap.nodes)
    THEN LoadNodes(g, SubSeq(snap.nodes, 1, snap.bad - 1), 1)
    ELSE LoadNodes(g, snap.nodes, 1)

\* json.dump raises TypeError on a node whose metadata holds a date.
Serializable(nodes) == \A i \in 1..Len(nodes) : nodes[i].metadata = "json"

\* _save_graph: the snapshot file written from the graph.  open(path, 'w')
\* truncates the file before json.dump writes it, and the exception json.dump
\* raises is caught and printed, which leaves a file that is not JSON.
SaveGraph(g) ==
    [state |-> IF Serializable(g.nodes) THEN "ok" ELSE "corrupt",
     nodes |-> g.nodes, edges |-> g.edges, bad |-> 0,
     total_nodes |-> Len(g.nodes), total_edges |-> Cardinality(g.edges)]
NoSnapshot ==
    [state |-> "none", nodes |-> << >>, edges |-> {}, bad |-> 0,
     total_nodes |-> 0, total_edges |-> 0]

(***************************************************************************)
(* State.                                                                  *)
(***************************************************************************)
VARIABLES
    files,                  \* the notes directory: path -> text, or NoFile
    nodes_by_id,            \* EnhancedKnowledgeGraph.nodes_by_id, in insertion order
    title_to_id,            \* EnhancedKnowledgeGraph.title_to_id, in insertion order
    category_index,
    tag_index,
    hierarchy_index,
    edges_by_id,
    collection,             \* ids stored in the vector collection (persistent)
    note_id_mapping,        \* MarkdownParser.note_id_mapping, by title
    hash_cache,             \* HashTracker.hash_cache (persistent)
    note_to_node_mapping,   \* HashTracker.note_to_node_mapping (persistent)
    notes_index,            \* NotesManager.notes_index
    snapshot,               \* enhanced_graph.json
    pending_changes,        \* MarkdownFileHandler.pending_changes, in insertion order
    processing_queue,       \* KnowledgeGraphWatcher.processing_queue
    graph_initialized,      \* EnhancedKnowledgeGraph.initialized, watcher running
    tools_initialized,      \* KnowledgeToolsManager.initialized
    last,                   \* the program's last operation on the stores, its report,
                            \* and the rename the user made since, if any
    synced_tree,            \* the notes directory as the last completed sync saw it
    edits,                  \* number of user edits so far
    runs,                   \* number of syncs and restarts so far
    tracker_disk,           \* hash_cache.json and note_mapping.json, and how the
                            \* tracker's last write ended
    debounce,               \* the handler's clock, time stamps and timer
    tasks,                  \* where the watcher's consumer and a tool's thread are
    link_cache              \* MarkdownParser.link_cache

graph_vars == <<nodes_by_id, title_to_id, category_index, tag_index,
                hierarchy_index, edges_by_id, collection>>
tracker_vars == <<hash_cache, note_to_node_mapping>>
watcher_vars == <<pending_changes, processing_queue>>
aux_vars == <<tracker_disk, debounce, tasks, link_cache>>
vars == <<files, graph_vars, note_id_mapping, tracker_vars, notes_index, snapshot,
          watcher_vars, graph_initialized, tools_initialized, last, synced_tree,
          edits, runs, aux_vars>>

Graph ==
    [nodes |-> nodes_by_id, titles |-> title_to_id, cat |-> category_index,
     tag |-> tag_index, hier |-> hierarchy_index, edges |-> edges_by_id,
     coll |-> collection]

SetGraph(g) ==
    /\ nodes_by_id' = g.nodes
    /\ title_to_id' = g.titles
    /\ category_index' = g.cat
    /\ tag_index' = g.tag
    /\ hierarchy_index' = g.hier
    /\ edges_by_id' = g.edges
    /\ collection' = g.coll

NoReport ==
    [new_files |-> {}, modified_files |-> {}, deleted_files |-> {},
     unchanged_files |-> {}, total_changes |-> 0, force_rebuild |-> FALSE,
     sync_completed |-> FALSE, clean_tree |-> FALSE, orphaned_ids |-> {},
     graph_nodes_before |-> 0, graph_nodes_after |-> 0]

\* No rename: source and destination are the same path.
NoMove == <<P1, P1>>

Last(op, path, old_id, changed, report) ==
    [op |-> op, path |-> path, old_id |-> old_id, changed |-> changed,
     report |-> report, moved |-> NoMove, seen |-> NoFile]


NoTree == [p \in Paths |-> [NoFile EXCEPT !.text = "#nosync"]]

\* The hash tracker's files as written last; failed and raised tell how the
\* last write of the tracker ended.
NoDisk == [cache |-> EmptyMap, mapping |-> EmptyMap, failed |-> FALSE, raised |-> FALSE]

\* The handler before any event: nothing stamped, no timer.
NoDebounce == [now |-> 0, stamp |-> [p \in Paths |-> 0], timer |-> -1]

\* Neither the watcher's consumer nor a tool is inside an operation.
NoTasks ==
    [watcher |-> [pc |-> "idle", path |-> P1, pn |-> ParseFile(EmptyMap, P1, NoFile)],
     tool |-> [pc |-> "idle", note |-> ParseNoteFile(P1, NoFile),
               chroma_failed |-> FALSE, raised |-> FALSE]]

GraphInit ==
    /\ nodes_by_id = << >>
    /\ title_to_id = << >>
    /\ category_index = EmptyMap
    /\ tag_index = EmptyMap
    /\ hierarchy_index = EmptyMap
    /\ edges_by_id = {}
    /\ collection = {}
    /\ note_id_mapping = EmptyMap
    /\ link_cache = NoLinks

TrackerInit ==
    /\ hash_cache = EmptyMap
    /\ note_to_node_mapping = EmptyMap
    /\ notes_index = EmptyMap
    /\ tracker_disk = NoDisk

WatcherInit ==
    /\ pending_changes = << >>
    /\ processing_queue = << >>
    /\ debounce = NoDebounce

ControlInit ==
    /\ graph_initialized = FALSE
    /\ tools_initialized = FALSE
    /\ last = Last("new", P1, NoId, FALSE, NoReport)
    /\ synced_tree = NoTree
    /\ edits = 0
    /\ runs = 0
    /\ tasks = NoTasks

Init ==
    /\ files \in InitialTrees
    /\ snapshot = NoSnapshot
    /\ GraphInit
    /\ TrackerInit
    /\ WatcherInit
    /\ ControlInit

(***************************************************************************)
(* The user edits the notes directory; the observer reports the edit to    *)
(* the handler while the watcher runs.                                     *)
(***************************************************************************)
\* MarkdownFileHandler._debounce_change: pending_changes[file_path] = now.
DebounceChange(pending, file_path) ==
    IF \E i \in DOMAIN pending : pending[i] = file_path
    THEN pending
    ELSE Append(pending, file_path)

\* on_created / on_modified / on_deleted: markdown files only.
OnEvent(pending, file_path) ==
    IF graph_initialized /\ file_path.ext \in {"md", "markdown"}
    THEN DebounceChange(pending, file_path)
    ELSE pending

UserWrite(p, c) ==
    /\ edits < MaxEdits
    /\ files' = [files EXCEPT ![p] = c]
    /\ pending_changes' = OnEvent(pending_changes, p)
    /\ last' = [last EXCEPT !.moved = NoMove]
    /\ edits' = edits + 1
    /\ UNCHANGED <<aux_vars, graph_vars, note_id_mapping, tracker_vars, notes_index, snapshot,
                   processing_queue, graph_initialized,
                   tools_initialized, synced_tree, runs>>

UserDelete(p) ==
    /\ edits < MaxEdits
    /\ files[p] # NoFile
    /\ files' = [files EXCEPT ![p] = NoFile]
    /\ pending_changes' = OnEvent(pending_changes, p)
    /\ last' = [last EXCEPT !.moved = NoMove]
    /\ edits' = edits + 1
    /\ UNCHANGED <<aux_vars, graph_vars, note_id_mapping, tracker_vars, notes_index, snapshot,
                   processing_queue, graph_initialized,
                   tools_initialized, synced_tree, runs>>

\* on_moved: the old path is reported as deleted, the new one as created.
UserRename(a, b) ==
    /\ edits < MaxEdits
    /\ a # b
    /\ files[a] # NoFile
    /\ files' = [files EXCEPT ![a] = NoFile, ![b] = files[a]]
    /\ pending_changes' = OnEvent(OnEvent(pending_changes, a), b)
    /\ last' = [last EXCEPT !.moved = <<a, b>>]
    /\ edits' = edits + 1
    /\ UNCHANGED <<aux_vars, graph_vars, note_id_mapping, tracker_vars, notes_index, snapshot,
                   processing_queue, graph_initialized,
                   tools_initialized, synced_tree, runs>>

(***************************************************************************)
(* file_watcher                                                            *)
(***************************************************************************)
\* asyncio.Queue(): maxsize is 0, which asyncio takes as no limit.
QueueMaxsize == 0

\* asyncio.Queue.full
QueueFull(queue) == QueueMaxsize > 0 /\ Len(queue) >= QueueMaxsize

\* _on_file_change: put_nowait; the event is skipped when the queue is full.
OnFileChange(queue, file_path, change_type) ==
    IF QueueFull(queue) THEN queue
    ELSE Append(queue, [file_path |-> file_path, change_type |-> change_type])

\* The callback is called for pending[i..] in order, each time as 'modified'.
RECURSIVE DeliverPending(_, _, _)
DeliverPending(queue, pending, i) ==
    IF i > Len(pending) THEN queue
    ELSE DeliverPending(OnFileChange(queue, pending[i], "modified"), pending, i + 1)

\* _process_pending_changes: the timer fires debounce_time after the last
\* event; every pending path is handed to the callback as 'modified' and
\* _on_file_change puts it on the processing queue.
ProcessPendingChanges ==
    /\ pending_changes # << >>
    /\ processing_queue' = DeliverPending(processing_queue, pending_changes, 1)
    /\ pending_changes' = << >>
    /\ UNCHANGED <<aux_vars, last, files, graph_vars, note_id_mapping, tracker_vars, notes_index,
                   snapshot, graph_initialized, tools_initialized,
                   synced_tree, edits, runs>>

\* The graph, the parser's mapping and the snapshot file, as one record.
World == [g |-> Graph, nim |-> note_id_mapping, snap |-> snapshot]

SetWorld(w) ==
    /\ SetGraph(w.g)
    /\ note_id_mapping' = w.nim
    /\ snapshot' = w.snap

\* _save_graph at the end of _remove_node_from_graph.
SaveRemoved(w, g1) == [w EXCEPT !.g = g1, !.snap = SaveGraph(g1)]

\* _remove_node_from_graph with its _save_graph.
RemoveNodeAndSave(w, node_id) == SaveRemoved(w, RemoveNodeFromGraph(w.g, node_id))

\* _resolve_wiki_links parses the nodes' files, then _save_graph.
SaveResolved(w, g1, fs) ==
    [g |-> g1, nim |-> ResolveMapping(w.nim, g1.nodes, fs, 1), snap |-> SaveGraph(g1)]

\* _create_new_node: add the parsed note, resolve wiki-links, save.
CreateNewNode(w, fs, file_path, pn) ==
    SaveResolved(w, ResolveWikiLinks(AddParsedNote(w.g, file_path, pn), fs), fs)

\* _update_existing_node: remove the old node, then _create_new_node.
UpdateExistingNode(w, fs, existing_node, pn) ==
    CreateNewNode(RemoveNodeAndSave(w, existing_node.id), fs,
                  existing_node.file_path, pn)

\* _handle_file_update once the file is parsed: i is the first node of the
\* file in nodes_by_id, 0 when there is none.
HandleParsedFile(w, fs, file_path, pn, i) ==
    IF i # 0
    THEN IF w.g.nodes[i].content_hash # pn.content_hash
         THEN UpdateExistingNode(w, fs, w.g.nodes[i], pn)
         ELSE w
    ELSE CreateNewNode(w, fs, file_path, pn)

\* _handle_file_update
HandleFileUpdate(w, fs, file_path) ==
    IF fs[file_path] = NoFile THEN w
    ELSE HandleParsedFile(
            [w EXCEPT !.nim = ParseFileMapping(w.nim, file_path, fs[file_path])],
            fs, file_path, ParseFile(w.nim, file_path, fs[file_path]),
            FirstIndex(w.g.nodes, LAMBDA n : n.file_path = file_path))

\* _handle_file_deletion once the node is looked up.
DeleteFoundNode(w, i) == IF i # 0 THEN RemoveNodeAndSave(w, w.g.nodes[i].id) ELSE w

\* _handle_file_deletion
HandleFileDeletion(w, file_path) ==
    DeleteFoundNode(w, FirstIndex(w.g.nodes, LAMBDA n : n.file_path = file_path))

\* _process_file_change
ProcessFileChange(w, fs, file_path, change_type) ==
    IF change_type = "deleted"
    THEN HandleFileDeletion(w, file_path)
    ELSE HandleFileUpdate(w, fs, file_path)

\* The id of the first node of a file, NoId when it has none.
FirstNodeId(nodes, i) == IF i # 0 THEN nodes[i].id ELSE NoId

\* Whether the file exists, has a node, and the node's hash differs from
\* the hash of the file as parsed now.
ContentChanged(nodes, nim, fs, p, i) ==
    /\ i # 0
    /\ fs[p] # NoFile
    /\ nodes[i].content_hash # ParseFile(nim, p, fs[p]).content_hash

\* _process_queue: one event is taken from the queue and processed.
ProcessEvent(p, change_type, i) ==
    /\ SetWorld(ProcessFileChange(World, files, p, change_type))
    /\ last' = [Last("watch", p, FirstNodeId(nodes_by_id, i),
                     ContentChanged(nodes_by_id, note_id_mapping, files, p, i),
                     NoReport) EXCEPT !.moved = last.moved, !.seen = files[p]]

ProcessQueue ==
    /\ graph_initialized
    /\ processing_queue # << >>
    /\ ProcessEvent(Head(processing_queue).file_path,
                    Head(processing_queue).change_type,
                    FirstIndex(nodes_by_id,
                        LAMBDA n : n.file_path = Head(processing_queue).file_path))
    /\ processing_queue' = Tail(processing_queue)
    /\ UNCHANGED <<aux_vars, files, tracker_vars, notes_index, pending_changes,
                   graph_initialized, tools_initialized, synced_tree, edits, runs>>

(***************************************************************************)
(* knowledge_agent.KnowledgeAgent.sync_knowledge_base                      *)
(***************************************************************************)
Stores ==
    [g |-> Graph, nim |-> note_id_mapping, snap |-> snapshot,
     hc |-> hash_cache, ntm |-> note_to_node_mapping]

\* _clean_all_storage: vector collection, graph dicts, hash cache, note
\* mapping and snapshot file are emptied.
CleanAllStorage(s) ==
    [s EXCEPT !.g = EmptyGraph, !.hc = EmptyMap, !.ntm = EmptyMap,
              !.snap = NoSnapshot]

\* _scan_vault_files: the markdown files of the notes directory.
ScanVaultFiles(fs) == {p \in DOMAIN fs : fs[p] # NoFile /\ p.ext = "md"}

\* sync_knowledge_base: the file paths of the graph's nodes.
GraphFiles(g) == {g.nodes[i].file_path : i \in DOMAIN g.nodes}

\* _detect_changes
DetectChanges(fs, hc, vault_paths, graph_files, force_rebuild) ==
    LET potentially_modified == vault_paths \cap graph_files
        modified_files == {p \in potentially_modified :
                              \/ force_rebuild
                              \/ p \notin DOMAIN hc
                              \/ calculate_content_hash(fs[p]) # hc[p].hash}
        new_files == vault_paths \ graph_files
        deleted_files == graph_files \ vault_paths
    IN  [new_files |-> new_files,
         deleted_files |-> deleted_files,
         modified_files |-> modified_files,
         unchanged_files |-> potentially_modified \ modified_files,
         total_changes |-> Cardinality(new_files) + Cardinality(deleted_files)
                           + Cardinality(modified_files),
         force_rebuild |-> force_rebuild]

\* _remove_file_from_graph: the graph part, and remove_note_mapping when a
\* node was found for the file.
RemoveFile(s, file_path) ==
    IF FirstIndex(s.g.nodes, LAMBDA n : n.file_path = file_path) = 0 THEN s
    ELSE [s EXCEPT !.g = RemoveFileFromGraph(s.g, file_path),
                   !.ntm = Del(s.ntm, file_path)]

\* _add_file_to_graph: parse the file and add the parsed note.
AddFile(s, fs, file_path) ==
    [s EXCEPT !.g = AddParsedNote(s.g, file_path,
                                  ParseFile(s.nim, file_path, fs[file_path])),
              !.nim = ParseFileMapping(s.nim, file_path, fs[file_path])]

\* _update_file_in_graph
UpdateFile(s, fs, file_path) == AddFile(RemoveFile(s, file_path), fs, file_path)

\* One loop of _process_sync_changes over the files of a class, in order.
RECURSIVE ApplyChanges(_, _, _, _, _)
ApplyChanges(s, fs, kind, order, i) ==
    IF i > Len(order) THEN s
    ELSE ApplyChanges(CASE kind = "deleted" -> RemoveFile(s, order[i])
                        [] kind = "new" -> AddFile(s, fs, order[i])
                        [] OTHER -> UpdateFile(s, fs, order[i]),
                      fs, kind, order, i + 1)

InClass(order, class) == SelectSeq(order, LAMBDA p : p \in class)

\* sync_knowledge_base without the orphan cleanup.
KeepOrphanedVectorEntries(g) == g

\* _clean_orphaned_vector_entries
CleanOrphanedVectorEntries(g) == [g EXCEPT !.coll = g.coll \cap NodeIds(g.nodes)]

\* _process_sync_changes after its loops: g4 is the graph with wiki-links
\* resolved, kept and saved when anything changed; then the hash tracker
\* drops the entries of files that are not in the directory.
FinishSyncChanges(s3, g4, fs, changes, valid_files) ==
    [g |-> IF changes.total_changes > 0 THEN g4 ELSE s3.g,
     nim |-> IF changes.total_changes > 0
             THEN ResolveMapping(s3.nim, g4.nodes, fs, 1) ELSE s3.nim,
     snap |-> IF changes.total_changes > 0 THEN SaveGraph(g4) ELSE s3.snap,
     hc |-> cleanup_stale_entries(s3.hc, valid_files),
     ntm |-> cleanup_stale_entries(s3.ntm, valid_files)]

\* _process_sync_changes after its loops.
ResolveSyncChanges(s3, fs, changes) ==
    FinishSyncChanges(s3, ResolveWikiLinks(s3.g, fs), fs, changes,
                      changes.new_files \cup changes.modified_files
                      \cup changes.unchanged_files)

\* The three loops of _process_sync_changes: deletions, additions, updates.
AppliedChanges(s, fs, changes, order) ==
    ApplyChanges(
        ApplyChanges(
            ApplyChanges(s, fs, "deleted", InClass(order, changes.deleted_files), 1),
            fs, "new", InClass(order, changes.new_files), 1),
        fs, "modified", InClass(order, changes.modified_files), 1)

\* _process_sync_changes: deletions, additions, updates, then the rest.
ProcessSyncChanges(s, fs, changes, order) ==
    ResolveSyncChanges(AppliedChanges(s, fs, changes, order), fs, changes)

\* sync_knowledge_base: the report it returns, built when the changes have
\* been processed; both node counts are len(nodes_by_id) at that time.
SyncReport(changes, clean_tree, orphaned_ids, nodes) ==
    [new_files |-> changes.new_files,
     modified_files |-> changes.modified_files,
     deleted_files |-> changes.deleted_files,
     unchanged_files |-> changes.unchanged_files,
     total_changes |-> changes.total_changes,
     force_rebuild |-> changes.force_rebuild,
     sync_completed |-> TRUE,
     clean_tree |-> clean_tree,
     orphaned_ids |-> orphaned_ids,
     graph_nodes_before |-> Len(nodes),
     graph_nodes_after |-> Len(nodes)]

\* sync_knowledge_base once the changes are detected.
SyncDetected(s5, changes, clean_tree) ==
    [stores |-> [s5 EXCEPT !.g = CleanOrphanedVectorEntries(s5.g)],
     report |-> SyncReport(changes, clean_tree, s5.g.coll \ NodeIds(s5.g.nodes),
                           s5.g.nodes)]

\* sync_knowledge_base from the stores s0 it has after the optional clean.
SyncFrom(s0, fs, changes, order, clean_tree) ==
    SyncDetected(ProcessSyncChanges(s0, fs, changes, order), changes, clean_tree)

\* sync_knowledge_base
SyncKnowledgeBase(s0, fs, force_rebuild, order, clean_tree) ==
    SyncFrom(s0, fs,
             DetectChanges(fs, s0.hc, ScanVaultFiles(fs), GraphFiles(s0.g),
                           force_rebuild),
             order, clean_tree)

\* list(set) iterates the files of a class in an order the code does not fix.
Orders == {<<P1, P2>>, <<P2, P1>>}

SetStores(r) ==
    /\ SetWorld(r.stores)
    /\ hash_cache' = r.stores.hc
    /\ note_to_node_mapping' = r.stores.ntm
    /\ last' = Last("sync", P1, NoId, Graph # r.stores.g, r.report)

Sync(force_rebuild) ==
    /\ tools_initialized
    /\ runs < MaxRuns
    /\ \E order \in Orders :
         SetStores(SyncKnowledgeBase(
             IF force_rebuild THEN CleanAllStorage(Stores) ELSE Stores,
             files, force_rebuild, order, synced_tree = files))
    /\ synced_tree' = files
    /\ runs' = runs + 1
    /\ UNCHANGED <<aux_vars, files, notes_index, watcher_vars, graph_initialized,
                   tools_initialized, edits>>

(***************************************************************************)
(* Initialisation and restart.                                             *)
(***************************************************************************)
\* _scan_notes_directory after the parses: resolve wiki-links, save.
ScanParsed(nim1, g1, fs) ==
    [g |-> g1, nim |-> ResolveMapping(nim1, g1.nodes, fs, 1), snap |-> SaveGraph(g1)]

\* _scan_notes_directory over the files in order.
ScanFiles(w, fs, order) ==
    ScanParsed(MappingAfterAll(w.nim, fs, order, 1),
               ResolveWikiLinks(
                   AddAllParsed(w.g, order, ParseAll(w.nim, fs, order, 1), 1), fs),
               fs)

\* EnhancedKnowledgeGraph._scan_notes_directory: parse every markdown
\* file, add the parsed notes, resolve wiki-links, save.
ScanNotesDirectory(w, fs) == ScanFiles(w, fs, MdFiles(fs, ScanOrder))

\* EnhancedKnowledgeGraph.initialize, then start_file_watcher.
InitializeGraph ==
    /\ ~graph_initialized
    /\ SetWorld(ScanNotesDirectory([World EXCEPT !.g = LoadGraph(Graph, snapshot)],
                                   files))
    /\ graph_initialized' = TRUE
    /\ last' = Last("init", P1, NoId, FALSE, NoReport)
    /\ UNCHANGED <<aux_vars, files, tracker_vars, notes_index, watcher_vars,
                   tools_initialized, synced_tree, edits, runs>>

\* KnowledgeToolsManager._process_existing_notes
RECURSIVE ProcessExistingNotes(_, _, _, _)
ProcessExistingNotes(g, index, order, i) ==
    IF i > Len(order) THEN g
    ELSE ProcessExistingNotes(AddNoteFromContent(g, index[order[i]]), index, order, i + 1)

\* add_note_from_content saves the graph after each note it adds.
SetGraphSaved(g, saved) ==
    /\ SetGraph(g)
    /\ snapshot' = IF saved THEN SaveGraph(g) ELSE snapshot

\* NotesManager.initialize over the files in order, then
\* _process_existing_notes over the notes it indexed.
InitializeNotes(order, valid, index) ==
    /\ notes_index' = index
    /\ hash_cache' = cleanup_stale_entries(
                        ScanExistingNotes(hash_cache, files, order, 1), valid)
    /\ note_to_node_mapping' = cleanup_stale_entries(note_to_node_mapping, valid)
    /\ SetGraphSaved(ProcessExistingNotes(Graph, index, order, 1), order # << >>)

\* KnowledgeToolsManager.initialize: the notes manager scans the notes and
\* cleans the hash cache, then every note is added to the graph.
InitializeTools ==
    /\ graph_initialized
    /\ ~tools_initialized
    /\ InitializeNotes(Existing(files, ScanOrder),
                       {p \in Paths : files[p] # NoFile},
                       [p \in {q \in Paths : files[q] # NoFile} |->
                            ScannedNote(hash_cache, p, files[p])])
    /\ tools_initialized' = TRUE
    /\ last' = Last("init_tools", P1, NoId, FALSE, NoReport)
    /\ UNCHANGED <<aux_vars, files, note_id_mapping, watcher_vars, graph_initialized,
                   synced_tree, edits, runs>>

\* The process stops and is started again.  What is on disk stays: the
\* notes, the vector collection, the hash cache files and the snapshot,
\* which is unreadable when the process died while _save_graph wrote it.
Restart(killed_in_save) ==
    /\ tools_initialized
    /\ runs < MaxRuns
    /\ nodes_by_id' = << >>
    /\ title_to_id' = << >>
    /\ category_index' = EmptyMap
    /\ tag_index' = EmptyMap
    /\ hierarchy_index' = EmptyMap
    /\ edges_by_id' = {}
    /\ note_id_mapping' = EmptyMap
    /\ notes_index' = EmptyMap
    /\ pending_changes' = << >>
    /\ processing_queue' = << >>
    /\ graph_initialized' = FALSE
    /\ tools_initialized' = FALSE
    /\ snapshot' = IF killed_in_save /\ snapshot.state = "ok"
                   THEN [snapshot EXCEPT !.state = "corrupt"]
                   ELSE snapshot
    /\ last' = Last("restart", P1, NoId, FALSE, NoReport)
    /\ runs' = runs + 1
    /\ UNCHANGED <<aux_vars, files, collection, tracker_vars, synced_tree, edits>>

Next ==
    \/ \E p \in Paths, c \in Texts : UserWrite(p, c)
    \/ \E p \in Paths : UserDelete(p)
    \/ \E a, b \in Paths : UserRename(a, b)
    \/ ProcessPendingChanges
    \/ ProcessQueue
    \/ \E force_rebuild \in BOOLEAN : Sync(force_rebuild)
    \/ InitializeGraph
    \/ InitializeTools
    \/ \E killed_in_save \in BOOLEAN : Restart(killed_in_save)

Spec == Init /\ [][Next]_vars

(***************************************************************************)
(* _load_graph on the snapshot files a start can find: files written by    *)
(* _save_graph after a scan of a notes directory, read back whole,         *)
(* truncated, or with a record that does not fit GraphNode or GraphEdge    *)
(* (a file of another version, or edited by hand).                         *)
(***************************************************************************)
MaxRecords == 3      \* positions of the record that does not fit

LoadOrders == {<<P1>>, <<P2>>, <<P1, P2>>, <<P2, P1>>}

SavedSnapshots ==
    {ScanFiles([g |-> EmptyGraph, nim |-> EmptyMap, snap |-> NoSnapshot],
               fs, order).snap : fs \in [Paths -> Texts], order \in LoadOrders}

SnapshotFiles ==
    {[snap EXCEPT !.bad = k] :
        <<snap, k>> \in {x \in SavedSnapshots \X (0..MaxRecords) :
                            \/ x[2] <= Len(x[1].nodes)
                            \/ x[2] = Len(x[1].nodes) + 1 /\ x[1].edges # {}}}
    \cup {[snap EXCEPT !.state = "corrupt"] : snap \in SavedSnapshots}

LoadInit ==
    /\ files = [p \in Paths |-> NoFile]
    /\ snapshot \in SnapshotFiles
    /\ GraphInit
    /\ TrackerInit
    /\ WatcherInit
    /\ ControlInit

\* _load_graph, called once by initialize.
LoadSnapshot ==
    /\ last.op = "new"
    /\ SetGraph(LoadGraph(Graph, snapshot))
    /\ last' = Last("load", P1, NoId, FALSE, NoReport)
    /\ UNCHANGED <<aux_vars, files, note_id_mapping, tracker_vars, notes_index,
                   snapshot, watcher_vars, graph_initialized, tools_initialized,
                   synced_tree, edits, runs>>

LoadNext == LoadSnapshot

LoadSpec == LoadInit /\ [][LoadNext]_vars

(***************************************************************************)
(* hash_utils.HashTracker with its two files.  Every operation changes the *)
(* map in memory and then writes the whole map to its file; writable tells *)
(* whether the write can be done (the directory may be read-only, or the   *)
(* disk full).  _save_cache and _save_mapping catch IOError and print.     *)
(***************************************************************************)
MaxTrackerOps == 3   \* operations on the hash tracker in one behaviour

\* The outcome of an operation that has not written yet.
Unwritten(disk) == [disk EXCEPT !.failed = FALSE, !.raised = FALSE]

\* _save_cache: the except clause prints a warning; nothing is raised.
SaveCache(disk, hc, writable) ==
    IF writable THEN [disk EXCEPT !.cache = hc]
    ELSE [disk EXCEPT !.failed = TRUE]

\* _save_mapping: the same for note_mapping.json.
SaveMapping(disk, ntm, writable) ==
    IF writable THEN [disk EXCEPT !.mapping = ntm]
    ELSE [disk EXCEPT !.failed = TRUE]

TrackerStep ==
    /\ runs < MaxTrackerOps
    /\ runs' = runs + 1
    /\ UNCHANGED <<files, graph_vars, note_id_mapping, notes_index, snapshot,
                   watcher_vars, graph_initialized, tools_initialized, last,
                   synced_tree, edits, debounce, tasks, link_cache>>

\* update_hash
TrackerUpdateHash(identifier, c, writable) ==
    /\ TrackerStep
    /\ hash_cache' = update_hash(hash_cache, identifier, calculate_content_hash(c),
                                 ExtractTitle(c, identifier))
    /\ tracker_disk' = SaveCache(Unwritten(tracker_disk), hash_cache', writable)
    /\ UNCHANGED note_to_node_mapping

\* set_note_mapping
TrackerSetNoteMapping(note_path, node_id, writable) ==
    /\ TrackerStep
    /\ note_to_node_mapping' = Put(note_to_node_mapping, note_path, node_id)
    /\ tracker_disk' = SaveMapping(Unwritten(tracker_disk), note_to_node_mapping',
                                   writable)
    /\ UNCHANGED hash_cache

\* remove_note_mapping: the file is written only when the path was mapped.
TrackerRemoveNoteMapping(note_path, writable) ==
    /\ TrackerStep
    /\ note_to_node_mapping' = Del(note_to_node_mapping, note_path)
    /\ tracker_disk' =
            IF note_path \in DOMAIN note_to_node_mapping
            THEN SaveMapping(Unwritten(tracker_disk), note_to_node_mapping', writable)
            ELSE Unwritten(tracker_disk)
    /\ UNCHANGED hash_cache

\* clear_cache
TrackerClearCache(writable) ==
    /\ TrackerStep
    /\ hash_cache' = EmptyMap
    /\ note_to_node_mapping' = EmptyMap
    /\ tracker_disk' = SaveMapping(SaveCache(Unwritten(tracker_disk), EmptyMap, writable),
                                   EmptyMap, writable)

\* cleanup_stale_entries: the files are written only when an entry was stale.
TrackerCleanupStale(valid_identifiers, writable) ==
    /\ TrackerStep
    /\ hash_cache' = cleanup_stale_entries(hash_cache, valid_identifiers)
    /\ note_to_node_mapping' =
            cleanup_stale_entries(note_to_node_mapping, valid_identifiers)
    /\ tracker_disk' =
            IF hash_cache' # hash_cache \/ note_to_node_mapping' # note_to_node_mapping
            THEN SaveMapping(SaveCache(Unwritten(tracker_disk), hash_cache', writable),
                             note_to_node_mapping', writable)
            ELSE Unwritten(tracker_disk)

TrackerSpecInit ==
    /\ files = [p \in Paths |-> NoFile]
    /\ snapshot = NoSnapshot
    /\ GraphInit
    /\ TrackerInit
    /\ WatcherInit
    /\ ControlInit

TrackerNext ==
    \/ \E p \in Paths, c \in Texts, writable \in BOOLEAN :
            TrackerUpdateHash(p, c, writable)
    \/ \E p \in Paths, c \in Texts, writable \in BOOLEAN :
            TrackerSetNoteMapping(p, ParseFile(EmptyMap, p, c).id, writable)
    \/ \E p \in Paths, writable \in BOOLEAN : TrackerRemoveNoteMapping(p, writable)
    \/ \E writable \in BOOLEAN : TrackerClearCache(writable)
    \/ \E valid \in SUBSET Paths, writable \in BOOLEAN :
            TrackerCleanupStale(valid, writable)

TrackerSpec == TrackerSpecInit /\ [][TrackerNext]_vars

(***************************************************************************)
(* file_watcher.MarkdownFileHandler with time.  The clock counts seconds;  *)
(* stamp holds the time.time() value _debounce_change stored for a path,   *)
(* timer the time at which the one threading.Timer of the handler fires,   *)
(* -1 when none is running.  The timer fires on time: the clock does not   *)
(* pass the time the timer is set to before _process_pending_changes ran.  *)
(***************************************************************************)
debounce_time == 2
MaxTime == 4         \* seconds of one behaviour
MaxEvents == 3       \* file-system events in one behaviour

\* _process_pending_changes: the pending paths whose change is debounce_time old.
DuePaths(pending, d) ==
    SelectSeq(pending, LAMBDA p : d.now - d.stamp[p] >= debounce_time)

NotDuePaths(pending, d) ==
    SelectSeq(pending, LAMBDA p : d.now - d.stamp[p] < debounce_time)

DebounceStep ==
    UNCHANGED <<files, graph_vars, note_id_mapping, tracker_vars, notes_index,
                snapshot, graph_initialized, tools_initialized, last, synced_tree,
                runs, tracker_disk, tasks, link_cache>>

\* on_modified for a markdown file, _debounce_change: the path is stamped
\* with the current time, the running timer is cancelled and a new one is
\* started for debounce_time from now.
FsEvent(p) ==
    /\ edits < MaxEvents
    /\ pending_changes' = DebounceChange(pending_changes, p)
    /\ debounce' = [debounce EXCEPT !.stamp[p] = debounce.now,
                                    !.timer = debounce.now + debounce_time]
    /\ edits' = edits + 1
    /\ UNCHANGED processing_queue
    /\ DebounceStep

\* A second passes.
Tick ==
    /\ debounce.now < MaxTime
    /\ debounce.timer = -1 \/ debounce.now < debounce.timer
    /\ debounce' = [debounce EXCEPT !.now = debounce.now + 1]
    /\ UNCHANGED <<pending_changes, processing_queue, edits>>
    /\ DebounceStep

\* The timer fires: _process_pending_changes.
TimerFires ==
    /\ debounce.timer # -1
    /\ debounce.now >= debounce.timer
    /\ processing_queue' =
            DeliverPending(processing_queue, DuePaths(pending_changes, debounce), 1)
    /\ pending_changes' = NotDuePaths(pending_changes, debounce)
    /\ debounce' = [debounce EXCEPT !.timer = -1]
    /\ UNCHANGED edits
    /\ DebounceStep

DebounceSpecInit ==
    /\ files = [p \in Paths |-> IF p = P1 THEN T_B1 ELSE T_A1]
    /\ snapshot = NoSnapshot
    /\ GraphInit
    /\ TrackerInit
    /\ WatcherInit
    /\ ControlInit

DebounceNext ==
    \/ \E p \in Paths : FsEvent(p)
    \/ Tick
    \/ TimerFires

DebounceSpec == DebounceSpecInit /\ [][DebounceNext]_vars

(***************************************************************************)
(* The watcher's consumer and a tool that creates a note, step by step.    *)
(* The consumer runs on the server's event loop; a tool runs its coroutine *)
(* through _run_async_safely on a thread of its own with a new event loop. *)
(* No lock is taken anywhere, so the steps of the two interleave freely.   *)
(* The consumer's update of a node is two steps, the removal of the old    *)
(* node and the addition of the new one; a tool's add_note_from_content is *)
(* two steps, the dict updates of _add_parsed_note and the rest.           *)
(***************************************************************************)
MaxToolRuns == 1     \* notes created by a tool in one behaviour

\* The one note the tool creates.
ToolContent == Plain(NoStr, "t1", {}, {}, {})

\* NotesManager.create_note: the file's folder and name.
CreatedPath(title, category) ==
    [folder |-> IF category = "Ideas to Develop" THEN F_ideas ELSE NoStr,
     stem |-> title, ext |-> "md"]

\* NotesManager.create_note: front matter, "# title", then the content.
CreatedFile(title, content, category, tags) ==
    WithFm(title, category, tags, NoStr, [content EXCEPT !.h1 = title])

\* NotesManager.create_note: the Note it returns.
CreatedNote(title, content, category, tags) ==
    [path |-> CreatedPath(title, category), title |-> title, content |-> content,
     category |-> category, tags |-> tags,
     content_hash |-> calculate_content_hash(content)]

\* The node add_note_from_content builds for a Note.
ToolNode(note) ==
    GraphNode(note.path,
              ContentNote(note.title, note.content, note.category, note.tags))

\* create_note: the file is written (the observer sees it), the note is
\* indexed and its hash cached.
ToolCreates(note) ==
    /\ note.path \in Paths
    /\ files[note.path] = NoFile
    /\ files' = [files EXCEPT
                    ![note.path] = CreatedFile(note.title, note.content,
                                               note.category, note.tags)]
    /\ pending_changes' = OnEvent(pending_changes, note.path)
    /\ notes_index' = Put(notes_index, note.path, note)
    /\ hash_cache' = update_hash(hash_cache, note.path, note.content_hash, note.title)
    /\ tasks' = [tasks EXCEPT !.tool = [pc |-> "created", note |-> note,
                                        chroma_failed |-> FALSE, raised |-> FALSE]]

\* The create_note tool up to the return of NotesManager.create_note.
ToolCreateNote(title, category, tags) ==
    /\ tools_initialized
    /\ tasks.tool.pc = "idle"
    /\ runs < MaxToolRuns
    /\ ToolCreates(CreatedNote(title, ToolContent, category, tags))
    /\ runs' = runs + 1
    /\ UNCHANGED <<graph_vars, note_id_mapping, note_to_node_mapping, snapshot,
                   processing_queue, graph_initialized, tools_initialized, last,
                   synced_tree, edits, tracker_disk, debounce, link_cache>>

\* add_note_from_content, first step: _add_parsed_note up to _update_indexes.
ToolAddBegin ==
    /\ tasks.tool.pc = "created"
    /\ SetGraph(StoreNode(Graph, ToolNode(tasks.tool.note)))
    /\ tasks' = [tasks EXCEPT !.tool.pc = "indexed"]
    /\ UNCHANGED <<files, note_id_mapping, tracker_vars, notes_index, snapshot,
                   watcher_vars, graph_initialized, tools_initialized, last,
                   synced_tree, edits, runs, tracker_disk, debounce, link_cache>>

\* add_note_from_content, second step: _add_to_chroma, whose except clause
\* prints when embedding or collection.add fails, then _save_graph and the
\* return of the node's id.
ToolAddEnd(chroma_ok) ==
    /\ tasks.tool.pc = "indexed"
    /\ SetGraphSaved(IF chroma_ok THEN AddToChroma(Graph, ToolNode(tasks.tool.note))
                                  ELSE Graph,
                     TRUE)
    /\ tasks' = [tasks EXCEPT !.tool.pc = "idle",
                              !.tool.chroma_failed = ~chroma_ok,
                              !.tool.raised = FALSE]
    /\ UNCHANGED <<files, note_id_mapping, tracker_vars, notes_index,
                   watcher_vars, graph_initialized, tools_initialized, last,
                   synced_tree, edits, runs, tracker_disk, debounce, link_cache>>

\* _handle_file_update for a file that exists: i is the first node of the
\* file, 0 when it has none, pn the parsed note.  When the node's hash
\* differs, _update_existing_node removes the node and the consumer is left
\* before _create_new_node; otherwise the handler runs to its end.
WatcherTakes(p, i, pn) ==
    IF i # 0 /\ nodes_by_id[i].content_hash # pn.content_hash
    THEN /\ SetWorld(RemoveNodeAndSave(
                        [World EXCEPT !.nim = Put(note_id_mapping, pn.title, pn.id)],
                        nodes_by_id[i].id))
         /\ tasks' = [tasks EXCEPT !.watcher = [pc |-> "removed", path |-> p, pn |-> pn]]
    ELSE /\ SetWorld(ProcessFileChange(World, files, p, "modified"))
         /\ UNCHANGED tasks

\* _process_queue takes an event: the handler up to the end of the removal
\* in _update_existing_node, or the whole handler when it removes nothing.
WatcherBegin ==
    /\ graph_initialized
    /\ processing_queue # << >>
    /\ tasks.watcher.pc = "idle"
    /\ IF files[Head(processing_queue).file_path] = NoFile
       THEN UNCHANGED <<graph_vars, note_id_mapping, snapshot, tasks>>
       ELSE WatcherTakes(Head(processing_queue).file_path,
                         FirstIndex(nodes_by_id,
                            LAMBDA n : n.file_path = Head(processing_queue).file_path),
                         ParseFile(note_id_mapping, Head(processing_queue).file_path,
                                   files[Head(processing_queue).file_path]))
    /\ processing_queue' = Tail(processing_queue)
    /\ UNCHANGED <<files, tracker_vars, notes_index, pending_changes,
                   graph_initialized, tools_initialized, last, synced_tree, edits,
                   runs, tracker_disk, debounce, link_cache>>

\* _update_existing_node, second step: _create_new_node.
WatcherEnd ==
    /\ tasks.watcher.pc = "removed"
    /\ SetWorld(CreateNewNode(World, files, tasks.watcher.path, tasks.watcher.pn))
    /\ tasks' = [tasks EXCEPT !.watcher.pc = "idle"]
    /\ UNCHANGED <<files, tracker_vars, notes_index, watcher_vars,
                   graph_initialized, tools_initialized, last, synced_tree, edits,
                   runs, tracker_disk, debounce, link_cache>>

TaskNext ==
    \/ \E p \in Paths, c \in Texts : UserWrite(p, c)
    \/ \E p \in Paths : UserDelete(p)
    \/ ProcessPendingChanges
    \/ InitializeGraph
    \/ InitializeTools
    \/ WatcherBegin
    \/ WatcherEnd
    \/ \E tags \in {{}, {"ml"}} : ToolCreateNote(S_n1, "Ideas to Develop", tags)
    \/ ToolAddBegin
    \/ \E chroma_ok \in BOOLEAN : ToolAddEnd(chroma_ok)

TaskSpec == Init /\ [][TaskNext]_vars

(***************************************************************************)
(* get_hierarchy on the graphs the program builds from notes that name      *)
(* each other as parent.  The interpreter ends a recursion that gets deeper *)
(* than its limit with RecursionError; the model takes a limit larger than  *)
(* the number of nodes a graph of two files can hold.                       *)
(***************************************************************************)
RecursionLimit == 6

\* Two notes, each the child of the other.
H_A == Plain(S_Ab, "t1", {}, {<<"child_of", S_Cd>>}, {})
H_B == Plain(S_Cd, "t1", {}, {<<"child_of", S_Ab>>}, {})
HierTexts == {H_A, H_B}

HierTrees ==
    {[p \in Paths |-> IF p = P1 THEN H_A ELSE NoFile],
     [p \in Paths |-> IF p = P1 THEN H_A ELSE H_B]}

\* get_hierarchy of an id that is not a node: {}.
NoHierarchy ==
    [found |-> FALSE, overflow |-> FALSE, id |-> NoId, title |-> NoStr,
     category |-> "", children |-> {}]

\* The call did not return: the recursion went past the limit.
RecursionError == [NoHierarchy EXCEPT !.overflow = TRUE]

HierarchyOf(node, children) ==
    IF RecursionError \in children THEN RecursionError
    ELSE [found |-> TRUE, overflow |-> FALSE, id |-> node.id, title |-> node.title,
          category |-> node.category, children |-> children]

\* get_hierarchy: the node with the hierarchies of its children that are
\* nodes; depth is the depth of the call.
RECURSIVE get_hierarchy(_, _, _)
get_hierarchy(g, parent_id, depth) ==
    IF depth > RecursionLimit THEN RecursionError
    ELSE IF parent_id \notin NodeIds(g.nodes) THEN NoHierarchy
    ELSE HierarchyOf(NodeOf(g.nodes, parent_id),
                     {get_hierarchy(g, child_id, depth + 1) :
                         child_id \in Get(g.hier, parent_id, {}) \cap NodeIds(g.nodes)})

\* A caller asks for the hierarchy under an id, of a node or of none.
GetHierarchy ==
    /\ graph_initialized
    /\ \E parent_id \in NodeIds(nodes_by_id) \cup {NoId} :
         last' = Last("get_hierarchy", P1, parent_id, FALSE,
                      get_hierarchy(Graph, parent_id, 1))
    /\ UNCHANGED <<files, graph_vars, note_id_mapping, tracker_vars, notes_index,
                   snapshot, watcher_vars, graph_initialized, tools_initialized,
                   synced_tree, edits, runs, aux_vars>>

HierInit ==
    /\ files \in HierTrees
    /\ snapshot = NoSnapshot
    /\ GraphInit
    /\ TrackerInit
    /\ WatcherInit
    /\ ControlInit

HierNext ==
    \/ \E p \in Paths, c \in HierTexts : UserWrite(p, c)
    \/ ProcessPendingChanges
    \/ ProcessQueue
    \/ \E force_rebuild \in BOOLEAN : Sync(force_rebuild)
    \/ InitializeGraph
    \/ InitializeTools
    \/ GetHierarchy

HierSpec == HierInit /\ [][HierNext]_vars

(***************************************************************************)
(* NotesManager.update_note.  In this specification a note file is its     *)
(* front matter (present or not, with the time of its 'updated' key) and   *)
(* its body as a list of tokens: words, wiki-links and the headings of     *)
(* update sections, which carry the minute they were written in.  The      *)
(* clock is the handler's clock of seconds.                                *)
(***************************************************************************)
MaxUpdates == 3          \* calls of update_note in one behaviour
SecondsPerMinute == 2    \* seconds of the model's minute

Tok(kind, s, at) == [kind |-> kind, s |-> s, at |-> at]
Word(s) == Tok("word", s, 0)
Link(target) == Tok("link", target, 0)

\* "## Update - " followed by strftime('%Y-%m-%d %H:%M') of the time.
UpdateHeading(now) == Tok("heading", NoStr, now \div SecondsPerMinute)

\* The texts a caller appends: plain, and with a wiki-link to a note.
UpdateTexts == {<<Word(S_Zz)>>, <<Word(S_Zz), Link(S_Ab)>>, <<Link(S_Cd)>>}

NoteFile(fm, body) == [fm |-> fm, updated |-> 0, body |-> body]

\* The Note of a file in notes_index.
IndexedNote(path, title, content) ==
    [path |-> path, title |-> title, content |-> content,
     category |-> DetermineCategoryFromPath(path), tags |-> {},
     content_hash |-> calculate_content_hash(content)]

\* get_obsidian_wiki_link_for_note: the path of the first indexed note with
\* the title, as a wiki-link target; the title itself when there is none.
ObsidianWikiLinkForNote(index, order, note_title) ==
    IF \E i \in DOMAIN order : index[order[i]].title = note_title
    THEN WikiPath(order[CHOOSE i \in DOMAIN order :
                            /\ index[order[i]].title = note_title
                            /\ \A j \in 1..(i - 1) : index[order[j]].title # note_title])
    ELSE note_title

\* _fix_wiki_links_in_content: a link without '/' is replaced by the link
\* get_obsidian_wiki_link_for_note gives for it.
FixWikiLinksInContent(index, order, content) ==
    [i \in DOMAIN content |->
        IF content[i].kind = "link" /\ ~HasSlash(content[i].s)
        THEN Link(ObsidianWikiLinkForNote(index, order, content[i].s))
        ELSE content[i]]

\* update_note once the section is known not to be in the file: the file
\* is written with the section appended, its links fixed and its 'updated'
\* key set; the note's content gets the section as given.
AppendSection(file, note, section, index, order, now) ==
    [file |-> [fm |-> file.fm,
               updated |-> IF file.fm THEN now ELSE file.updated,
               body |-> FixWikiLinksInContent(index, order, file.body \o section)],
     note |-> [note EXCEPT !.content = note.content \o section,
                           !.content_hash = calculate_content_hash(note.content \o section)]]

\* update_note: nothing is done when the section is already in the file.
update_note(file, note, additional_content, index, order, now) ==
    IF IsSubstring(<<UpdateHeading(now)>> \o additional_content, file.body)
    THEN [file |-> file, note |-> note]
    ELSE AppendSection(file, note, <<UpdateHeading(now)>> \o additional_content,
                       index, order, now)

SetUpdated(note_path, r) ==
    /\ files' = [files EXCEPT ![note_path] = r.file]
    /\ notes_index' = [notes_index EXCEPT ![note_path] = r.note]
    /\ hash_cache' = IF r.file = files[note_path] THEN hash_cache
                     ELSE update_hash(hash_cache, note_path, r.note.content_hash,
                                      r.note.title)

\* A caller updates a note.
UpdateNote(note_path, additional_content) ==
    /\ runs < MaxUpdates
    /\ note_path \in DOMAIN notes_index
    /\ SetUpdated(note_path,
                  update_note(files[note_path], notes_index[note_path],
                              additional_content, notes_index, ScanOrder,
                              debounce.now))
    /\ last' = [op |-> "update_note", path |-> note_path,
                text |-> additional_content,
                minute |-> debounce.now \div SecondsPerMinute]
    /\ runs' = runs + 1
    /\ UNCHANGED <<graph_vars, note_id_mapping, note_to_node_mapping, snapshot,
                   watcher_vars, graph_initialized, tools_initialized, synced_tree,
                   edits, aux_vars>>

\* Two notes, Ab in the folder ideas and Cd in the root, scanned and
\* indexed by NotesManager.initialize.
UpdateSpecInit ==
    /\ \E fm1, fm2 \in BOOLEAN :
         files = [p \in Paths |-> IF p = P1 THEN NoteFile(fm1, <<Word(S_ab)>>)
                                            ELSE NoteFile(fm2, <<Word(S_ab)>>)]
    /\ notes_index = [p \in Paths |->
                        IndexedNote(p, IF p = P1 THEN S_Ab ELSE S_Cd, <<Word(S_ab)>>)]
    /\ hash_cache = [p \in Paths |->
                        [hash |-> calculate_content_hash(<<Word(S_ab)>>),
                         title |-> IF p = P1 THEN S_Ab ELSE S_Cd]]
    /\ note_to_node_mapping = EmptyMap
    /\ tracker_disk = NoDisk
    /\ snapshot = NoSnapshot
    /\ GraphInit
    /\ WatcherInit
    /\ ControlInit

UpdateNext ==
    \/ \E p \in Paths, t \in UpdateTexts : UpdateNote(p, t)
    \/ Tick

UpdateSpec == UpdateSpecInit /\ [][UpdateNext]_vars

(***************************************************************************)
(* unified_search's merge and search_content_in_files, on inputs drawn     *)
(* from bounded sets.  A candidate is a UnifiedSearchResult reduced to its *)
(* node id, its source type and its relevance score in tenths; a searched  *)
(* file is whether a node has its path and how many of its lines match.    *)
(***************************************************************************)
MaxCandidates == 3       \* results the sub-queries of one search produce
MaxLimit == 3            \* largest limit a caller passes
MaxGrepFiles == 3        \* markdown files of the searched directory
MaxMatchesPerFile == 5

SearchIds == {<<"n", "_", "1">>, <<"n", "_", "2">>}
SourceTypes == {<<"g", "r", "e", "p">>, <<"t", "a", "g">>}
Scores == {7, 8, 10}

CandidateResults ==
    [node_id : SearchIds, source_type : SourceTypes, relevance_score : Scores]

CandidateLists == UNION {[1..n -> CandidateResults] : n \in 0..MaxCandidates}

\* A file with more matching lines than are kept, with one, with none.
GrepFiles == [has_node : BOOLEAN, matching_lines : {0, 1, MaxMatchesPerFile + 1}]

GrepDirectories == UNION {[1..n -> GrepFiles] : n \in 0..MaxGrepFiles}

\* f"{result.node_id}_{result.source_type}"
ResultKey(result) == result.node_id \o <<"_">> \o result.source_type

\* The loop's body without the comparison of the scores.
StoreLatest(unique, j, r) ==
    IF j = 0 THEN Append(unique, r) ELSE [unique EXCEPT ![j] = r]

\* The loop's body: r is stored under its key when the key is new (j = 0)
\* or when r's score is higher than the score of the result stored there.
StoreBest(unique, j, r) ==
    IF j = 0 THEN Append(unique, r)
    ELSE IF r.relevance_score > unique[j].relevance_score
    THEN [unique EXCEPT ![j] = r]
    ELSE unique

\* unique_results after the loop over all_results[i..].
RECURSIVE UniqueResults(_, _, _)
UniqueResults(unique, all_results, i) ==
    IF i > Len(all_results) THEN unique
    ELSE UniqueResults(
            StoreBest(unique,
                      FirstIndex(unique,
                                 LAMBDA u : ResultKey(u) = ResultKey(all_results[i])),
                      all_results[i]),
            all_results, i + 1)

\* list.insert of sorted(): x goes behind the entries that do not rank
\* below it (the sort is stable).
RECURSIVE InsertRanked(_, _, _)
InsertRanked(sorted, x, key) ==
    IF sorted = << >> THEN <<x>>
    ELSE IF Head(sorted)[key] >= x[key]
    THEN <<Head(sorted)>> \o InsertRanked(Tail(sorted), x, key)
    ELSE <<x>> \o sorted

\* sorted(values, key=lambda x: x[key], reverse=True)
RECURSIVE SortedDescending(_, _, _)
SortedDescending(sorted, values, key) ==
    IF values = << >> THEN sorted
    ELSE SortedDescending(InsertRanked(sorted, Head(values), key), Tail(values), key)

\* seq[:limit] for a limit that is not negative.
Truncate(seq, limit) == SubSeq(seq, 1, IF limit < Len(seq) THEN limit ELSE Len(seq))

\* unified_search, step 5: remove duplicates, sort by relevance, truncate.
MergeResults(all_results, limit) ==
    Truncate(SortedDescending(<< >>, UniqueResults(<< >>, all_results, 1),
                              "relevance_score"),
             limit)

\* The matches search_content_in_files lists for a file.
FileMatches(file) ==
    IF file.matching_lines >= MaxMatchesPerFile THEN MaxMatchesPerFile
    ELSE file.matching_lines

\* search_content_in_files: the loop over the files[i..] of rglob.  A file
\* without a node is skipped by continue; after any other file the loop
\* ends when the results have reached the limit.
RECURSIVE SearchFiles(_, _, _, _)
SearchFiles(search_results, directory, i, limit) ==
    IF i > Len(directory) THEN search_results
    ELSE IF ~directory[i].has_node
    THEN SearchFiles(search_results, directory, i + 1, limit)
    ELSE LET found == IF FileMatches(directory[i]) > 0
                      THEN Append(search_results,
                                  [file |-> i, matches |-> FileMatches(directory[i]),
                                   total_matches |-> FileMatches(directory[i])])
                      ELSE search_results
         IN  IF Len(found) >= limit THEN found
             ELSE SearchFiles(found, directory, i + 1, limit)

\* search_content_in_files
search_content_in_files(directory, limit) ==
    SortedDescending(<< >>, SearchFiles(<< >>, directory, 1, limit),
                     "total_matches")

NoSearch ==
    [op |-> "new", all_results |-> << >>, directory |-> << >>, limit |-> 0,
     grep_limit |-> 0, results |-> << >>]

SearchStep ==
    UNCHANGED <<files, graph_vars, note_id_mapping, tracker_vars, notes_index,
                snapshot, watcher_vars, graph_initialized, tools_initialized,
                synced_tree, edits, runs, aux_vars>>

\* unified_search merges what its sub-queries found.
UnifiedSearchMerge ==
    /\ last.op = "new"
    /\ last.directory = << >>
    /\ last' = [last EXCEPT !.op = "unified_search",
                            !.results = MergeResults(last.all_results, last.limit)]
    /\ SearchStep

\* A caller searches the files.
SearchContent ==
    /\ last.op = "new"
    /\ last.all_results = << >>
    /\ last' = [last EXCEPT !.op = "search_content",
                            !.grep_limit = last.limit,
                            !.results = search_content_in_files(last.directory,
                                                                last.limit)]
    /\ SearchStep

\* unified_search's grep sub-query: search_content_in_files(limit=limit//2).
UnifiedSearchGrep ==
    /\ last.op = "new"
    /\ last.all_results = << >>
    /\ last' = [last EXCEPT !.op = "unified_grep",
                            !.grep_limit = last.limit \div 2,
                            !.results = search_content_in_files(last.directory,
                                                                last.limit \div 2)]
    /\ SearchStep

SearchSpecInit ==
    /\ files = [p \in Paths |-> NoFile]
    /\ snapshot = NoSnapshot
    /\ GraphInit
    /\ TrackerInit
    /\ WatcherInit
    /\ graph_initialized = TRUE
    /\ tools_initialized = TRUE
    /\ synced_tree = NoTree
    /\ edits = 0
    /\ runs = 0
    /\ tasks = NoTasks
    /\ \E limit \in 0..MaxLimit :
         \/ \E all_results \in CandidateLists :
              last = [NoSearch EXCEPT !.all_results = all_results, !.limit = limit]
         \/ \E directory \in GrepDirectories :
              last = [NoSearch EXCEPT !.directory = directory, !.limit = limit]

SearchNext ==
    \/ UnifiedSearchMerge
    \/ SearchContent
    \/ UnifiedSearchGrep

SearchSpec == SearchSpecInit /\ [][SearchNext]_vars

(***************************************************************************)
(* decide_note_action.  The language models configured (OpenRouter,        *)
(* Anthropic, OpenAI, in this order) are asked one after the other; a      *)
(* reply is an error of the call, text without JSON, or a JSON object,     *)
(* of which the model keeps action, confidence (in tenths) and what        *)
(* reasoning is.  Relevance scores are in tenths as well.                  *)
(***************************************************************************)
MaxModels == 3           \* model_configs has three entries

CallFailed == [kind |-> "error", action |-> "", confidence |-> 0, reasoning |-> "missing"]
NotJson == [kind |-> "text", action |-> "", confidence |-> 0, reasoning |-> "missing"]

\* JSON objects a language model may answer with: the decision asked for,
\* and objects with another action, a confidence of 1.5, reasoning as one
\* string, or keys missing.
JsonReplies ==
    [kind : {"json"}, action : {"create", "delete", ""}, confidence : {6, 15},
     reasoning : {"list", "string"}]

Replies == {CallFailed, NotJson} \cup JsonReplies

ReplyLists == UNION {[1..n -> Replies] : n \in 0..MaxModels}

\* The relevance of the first of top_notes, 0 when there is none.
TopScores == {0, 5, 8}

Decision(action, confidence, reasoning, by) ==
    [action |-> action, confidence |-> confidence, reasoning |-> reasoning, by |-> by]

\* _fallback_decision
FallbackDecision(top_score) ==
    IF top_score > 7 THEN Decision("update", 7, "list", "fallback")
    ELSE Decision("create", 6, "list", "fallback")

\* _get_llm_decision over the configured models[i..]: the first reply that
\* json.loads accepts is returned as it is; NoDecision stands for the
\* exception raised when no reply was.
NoDecision == Decision("", 0, "missing", "none")

RECURSIVE GetLlmDecision(_, _)
GetLlmDecision(replies, i) ==
    IF i > Len(replies) THEN NoDecision
    ELSE IF replies[i].kind = "json"
    THEN Decision(replies[i].action, replies[i].confidence, replies[i].reasoning, "llm")
    ELSE GetLlmDecision(replies, i + 1)

\* _decide: the decision of the language model, the fallback's when
\* _get_llm_decision raised.
Decide(replies, top_score) ==
    IF GetLlmDecision(replies, 1) = NoDecision THEN FallbackDecision(top_score)
    ELSE GetLlmDecision(replies, 1)

NoQuestion == [op |-> "new", replies |-> << >>, top_score |-> 0, decision |-> NoDecision]

\* A caller asks decide_note_action.
DecideNoteAction ==
    /\ last.op = "new"
    /\ last' = [last EXCEPT !.op = "decide",
                            !.decision = Decide(last.replies, last.top_score)]
    /\ UNCHANGED <<files, graph_vars, note_id_mapping, tracker_vars, notes_index,
                   snapshot, watcher_vars, graph_initialized, tools_initialized,
                   synced_tree, edits, runs, aux_vars>>

DecideSpecInit ==
    /\ files = [p \in Paths |-> NoFile]
    /\ snapshot = NoSnapshot
    /\ GraphInit
    /\ TrackerInit
    /\ WatcherInit
    /\ graph_initialized = TRUE
    /\ tools_initialized = TRUE
    /\ synced_tree = NoTree
    /\ edits = 0
    /\ runs = 0
    /\ tasks = NoTasks
    /\ \E replies \in ReplyLists, top_score \in TopScores :
         last = [NoQuestion EXCEPT !.replies = replies, !.top_score = top_score]

DecideNext == DecideNoteAction

DecideSpec == DecideSpecInit /\ [][DecideNext]_vars

(***************************************************************************)
(* CacheSpec: a LinkCache under add_link and remove_note.                  *)
(***************************************************************************)
MaxCacheOps == 4

\* The ids of three notes.
CacheIds == {NameId(S_Ab), NameId(S_Cd), NameId(S_Zz)}

CacheStep(op, id) ==
    /\ runs < MaxCacheOps
    /\ runs' = runs + 1
    /\ last' = [op |-> op, id |-> id, before |-> link_cache]
    /\ UNCHANGED <<files, graph_vars, note_id_mapping, tracker_vars, notes_index,
                   snapshot, watcher_vars, graph_initialized, tools_initialized,
                   synced_tree, edits, tracker_disk, debounce, tasks>>

CacheAddLink ==
    \E source_id, target_id \in CacheIds, metadata \in {NoMetadata, "wiki_link"} :
        /\ link_cache' = add_link(link_cache, source_id, target_id, metadata)
        /\ CacheStep("add_link", source_id)

CacheRemoveNote ==
    \E note_id \in CacheIds :
        /\ link_cache' = remove_note(link_cache, note_id)
        /\ CacheStep("remove_note", note_id)

CacheSpecInit ==
    /\ files = [p \in Paths |-> NoFile]
    /\ snapshot = NoSnapshot
    /\ GraphInit
    /\ TrackerInit
    /\ WatcherInit
    /\ graph_initialized = FALSE
    /\ tools_initialized = FALSE
    /\ last = [op |-> "new", id |-> NoId, before |-> NoLinks]
    /\ synced_tree = NoTree
    /\ edits = 0
    /\ runs = 0
    /\ tasks = NoTasks

CacheNext ==
    \/ CacheAddLink
    \/ CacheRemoveNote

CacheSpec == CacheSpecInit /\ [][CacheNext]_vars

(***************************************************************************)
(* LinkSpec: the parser's link cache beside the graph.  parse_file calls   *)
(* _update_link_cache before it sets note_id_mapping; the scan, the        *)
(* watcher and the sync parse files, nothing else touches the cache.       *)
(***************************************************************************)
\* The link cache after parse_file has parsed the files of order[i..].
RECURSIVE LinksAfterAll(_, _, _, _, _)
LinksAfterAll(lc, nim, fs, order, i) ==
    IF i > Len(order) THEN lc
    ELSE LinksAfterAll(
            UpdateLinkCache(lc, nim, ParseFile(nim, order[i], fs[order[i]])),
            ParseFileMapping(nim, order[i], fs[order[i]]), fs, order, i + 1)

\* The files _resolve_wiki_links parses: those of the nodes, in the order
\* of nodes_by_id, that exist.
NodeFiles(nodes, fs) ==
    LET existing == SelectSeq(nodes, LAMBDA n : fs[n.file_path] # NoFile)
    IN  [i \in DOMAIN existing |-> existing[i].file_path]

\* _scan_notes_directory: every file is parsed, then _resolve_wiki_links
\* parses the file of every node.
ScanLinks(lc, w, fs, order) ==
    LinksAfterAll(LinksAfterAll(lc, w.nim, fs, order, 1),
                  MappingAfterAll(w.nim, fs, order, 1), fs,
                  NodeFiles(ScanFiles(w, fs, order).g.nodes, fs), 1)

\* _handle_file_update: the file is parsed; when its node is created or
\* replaced, _resolve_wiki_links parses the file of every node.
WatcherLinks(lc, w, fs, p, change_type, i) ==
    IF change_type = "deleted" \/ fs[p] = NoFile THEN lc
    ELSE IF i # 0 /\ w.g.nodes[i].content_hash = ParseFile(w.nim, p, fs[p]).content_hash
    THEN UpdateLinkCache(lc, w.nim, ParseFile(w.nim, p, fs[p]))
    ELSE LinksAfterAll(UpdateLinkCache(lc, w.nim, ParseFile(w.nim, p, fs[p])),
                       ParseFileMapping(w.nim, p, fs[p]), fs,
                       NodeFiles(ProcessFileChange(w, fs, p, change_type).g.nodes, fs),
                       1)

\* _process_sync_changes: the new and the modified files are parsed when
\* they are added; when anything changed, _resolve_wiki_links parses the
\* file of every node.
AppliedLinks(lc, s, s3, fs, changes, order) ==
    IF changes.total_changes > 0
    THEN LinksAfterAll(
            LinksAfterAll(lc, s.nim, fs,
                          InClass(order, changes.new_files)
                              \o InClass(order, changes.modified_files), 1),
            s3.nim, fs, NodeFiles(s3.g.nodes, fs), 1)
    ELSE lc

\* sync_knowledge_base: _clean_all_storage leaves the parser as it is.
SyncLinks(lc, s0, fs, changes, order) ==
    AppliedLinks(lc, s0, AppliedChanges(s0, fs, changes, order), fs, changes, order)

LinkInitializeGraph ==
    /\ ~graph_initialized
    /\ SetWorld(ScanNotesDirectory([World EXCEPT !.g = LoadGraph(Graph, snapshot)],
                                   files))
    /\ link_cache' = ScanLinks(link_cache, World, files, MdFiles(files, ScanOrder))
    /\ graph_initialized' = TRUE
    /\ last' = Last("init", P1, NoId, FALSE, NoReport)
    /\ UNCHANGED <<tracker_disk, debounce, tasks, files, tracker_vars, notes_index,
                   watcher_vars, tools_initialized, synced_tree, edits, runs>>

LinkProcessQueue ==
    /\ graph_initialized
    /\ processing_queue # << >>
    /\ ProcessEvent(Head(processing_queue).file_path,
                    Head(processing_queue).change_type,
                    FirstIndex(nodes_by_id,
                        LAMBDA n : n.file_path = Head(processing_queue).file_path))
    /\ link_cache' = WatcherLinks(link_cache, World, files,
                        Head(processing_queue).file_path,
                        Head(processing_queue).change_type,
                        FirstIndex(nodes_by_id,
                            LAMBDA n : n.file_path = Head(processing_queue).file_path))
    /\ processing_queue' = Tail(processing_queue)
    /\ UNCHANGED <<tracker_disk, debounce, tasks, files, tracker_vars, notes_index,
                   pending_changes, graph_initialized, tools_initialized,
                   synced_tree, edits, runs>>

\* sync_knowledge_base from the stores s0 it has after the optional clean.
LinkSyncFrom(s0, force_rebuild, order) ==
    /\ SetStores(SyncKnowledgeBase(s0, files, force_rebuild, order,
                                   synced_tree = files))
    /\ link_cache' = SyncLinks(link_cache, s0, files,
                        DetectChanges(files, s0.hc, ScanVaultFiles(files),
                                      GraphFiles(s0.g), force_rebuild),
                        order)

LinkSync ==
    /\ tools_initialized
    /\ runs < MaxRuns
    /\ \E force_rebuild \in BOOLEAN, order \in Orders :
         LinkSyncFrom(IF force_rebuild THEN CleanAllStorage(Stores) ELSE Stores,
                      force_rebuild, order)
    /\ synced_tree' = files
    /\ runs' = runs + 1
    /\ UNCHANGED <<tracker_disk, debounce, tasks, files, notes_index, watcher_vars,
                   graph_initialized, tools_initialized, edits>>

LinkNext ==
    \/ \E p \in Paths, c \in Texts : UserWrite(p, c)
    \/ \E p \in Paths : UserDelete(p)
    \/ ProcessPendingChanges
    \/ LinkProcessQueue
    \/ LinkSync
    \/ LinkInitializeGraph
    \/ InitializeTools

LinkSpec == Init /\ [][LinkNext]_vars

(***************************************************************************)
(* The snapshot file of a notes directory in which a note's front matter   *)
(* has a date: the notes of Spec, and the first of them with the key       *)
(* "created: 2024-01-01" added to its front matter.                        *)
(***************************************************************************)
T_D1 == WithDate(T_A1)
DatedTexts == {T_A1, T_D1, T_B1}

DatedTrees ==
    {[p \in Paths |-> NoFile],
     [p \in Paths |-> IF p = P1 THEN T_D1 ELSE NoFile],
     [p \in Paths |-> IF p = P1 THEN T_B1 ELSE T_A1]}

SnapshotInit ==
    /\ files \in DatedTrees
    /\ snapshot = NoSnapshot
    /\ GraphInit
    /\ TrackerInit
    /\ WatcherInit
    /\ ControlInit

SnapshotNext ==
    \/ \E p \in Paths, c \in DatedTexts : UserWrite(p, c)
    \/ \E p \in Paths : UserDelete(p)
    \/ ProcessPendingChanges
    \/ ProcessQueue
    \/ \E force_rebuild \in BOOLEAN : Sync(force_rebuild)
    \/ InitializeGraph
    \/ InitializeTools

SnapshotSpec == SnapshotInit /\ [][SnapshotNext]_vars

(***************************************************************************)
(* file_watcher.MarkdownFileHandler, thread by thread.  The observer's     *)
(* thread runs on_modified and _debounce_change; the threading.Timer it    *)
(* starts runs _process_pending_changes on a thread of its own; the        *)
(* consumer runs on the event loop.  pending_changes is shared without a   *)
(* lock, so the statements of the timer's loop interleave with the other   *)
(* two.  Here debounce holds the handler's timer (started and not yet      *)
(* fired) and the position of the thread that runs the timer's function:   *)
(* the items list(pending_changes.items()) gave it that it has not handled *)
(* yet, and the statement it is at.                                        *)
(***************************************************************************)
NoTimerThread == [timer |-> FALSE, pc |-> "idle", batch |-> << >>]

\* del self.pending_changes[file_path]
DelPending(pending, file_path) == SelectSeq(pending, LAMBDA p : p # file_path)

TimerStep ==
    UNCHANGED <<graph_vars, note_id_mapping, tracker_vars, notes_index, snapshot,
                graph_initialized, tools_initialized, last, synced_tree, runs,
                tracker_disk, tasks, link_cache>>

\* The user writes a file; the observer's thread runs on_modified and
\* _debounce_change, which stamps the path, cancels the timer that has not
\* fired (cancel does nothing to a function that already runs) and starts one.
WriteAndNotify(p, c) ==
    /\ edits < MaxEdits
    /\ files' = [files EXCEPT ![p] = c]
    /\ pending_changes' = OnEvent(pending_changes, p)
    /\ debounce' = [debounce EXCEPT !.timer = graph_initialized \/ debounce.timer]
    /\ edits' = edits + 1
    /\ UNCHANGED processing_queue
    /\ TimerStep

\* The timer fires, debounce_time after the last event, so every pending
\* change is due: _process_pending_changes takes list(pending_changes.items()).
TimerListsPending ==
    /\ debounce.timer
    /\ debounce.pc = "idle"
    /\ debounce' = [timer |-> FALSE, batch |-> pending_changes,
                    pc |-> IF pending_changes = << >> THEN "idle" ELSE "callback"]
    /\ UNCHANGED <<files, pending_changes, processing_queue, edits>>
    /\ TimerStep

\* self.callback(file_path, 'modified') for the next item of the list.
TimerCallback ==
    /\ debounce.pc = "callback"
    /\ processing_queue' = OnFileChange(processing_queue, Head(debounce.batch), "modified")
    /\ debounce' = [debounce EXCEPT !.pc = "del"]
    /\ UNCHANGED <<files, pending_changes, edits>>
    /\ TimerStep

\* del self.pending_changes[file_path], then the next item of the list.
TimerDel ==
    /\ debounce.pc = "del"
    /\ pending_changes' = DelPending(pending_changes, Head(debounce.batch))
    /\ debounce' = [debounce EXCEPT !.batch = Tail(debounce.batch),
                                    !.pc = IF Tail(debounce.batch) = << >>
                                           THEN "idle" ELSE "callback"]
    /\ UNCHANGED <<files, processing_queue, edits>>
    /\ TimerStep

\* The texts written while the watcher runs: two versions of a note without
\* front matter, so that no two files ever hold notes with the same hash.
RevisedTexts == {T_B1, T_B2}

TimerSpecInit ==
    /\ files \in InitialTrees
    /\ snapshot = NoSnapshot
    /\ GraphInit
    /\ TrackerInit
    /\ pending_changes = << >>
    /\ processing_queue = << >>
    /\ debounce = NoTimerThread
    /\ ControlInit

TimerNext ==
    \/ \E p \in Paths, c \in RevisedTexts : WriteAndNotify(p, c)
    \/ TimerListsPending
    \/ TimerCallback
    \/ TimerDel
    \/ ProcessQueue
    \/ InitializeGraph

TimerSpec == TimerSpecInit /\ [][TimerNext]_vars

(***************************************************************************)
(* EnhancedKnowledgeGraph.initialize called by several tasks: the startup  *)
(* handler and the endpoints of main.py on the server's event loop, and    *)
(* the tools, which run their coroutine through _run_async_safely on a     *)
(* thread of their own.  initialize tests self.initialized first and sets  *)
(* it last, and takes no lock.  Here tasks holds the position of every     *)
(* caller inside initialize and the number of times _load_graph and        *)
(* _scan_notes_directory have run.                                         *)
(***************************************************************************)
InitCallers == 1..3

NoCallers == [pc |-> [t \in InitCallers |-> "idle"], loads |-> 0, scans |-> 0]

InitCallStep ==
    UNCHANGED <<files, tracker_vars, notes_index, watcher_vars, tools_initialized,
                last, synced_tree, edits, runs, tracker_disk, debounce, link_cache>>

\* if self.initialized: return
InitEnter(t) ==
    /\ tasks.pc[t] = "idle"
    /\ tasks' = [tasks EXCEPT !.pc[t] = IF graph_initialized THEN "done" ELSE "load"]
    /\ UNCHANGED <<graph_vars, note_id_mapping, snapshot, graph_initialized>>
    /\ InitCallStep

\* await self._load_graph()
InitLoad(t) ==
    /\ tasks.pc[t] = "load"
    /\ SetGraph(LoadGraph(Graph, snapshot))
    /\ tasks' = [tasks EXCEPT !.pc[t] = "scan", !.loads = @ + 1]
    /\ UNCHANGED <<note_id_mapping, snapshot, graph_initialized>>
    /\ InitCallStep

\* await self._scan_notes_directory(); self.initialized = True
InitScan(t) ==
    /\ tasks.pc[t] = "scan"
    /\ SetWorld(ScanNotesDirectory(World, files))
    /\ graph_initialized' = TRUE
    /\ tasks' = [tasks EXCEPT !.pc[t] = "done", !.scans = @ + 1]
    /\ InitCallStep

InitCallInit ==
    /\ files \in InitialTrees
    /\ snapshot = NoSnapshot
    /\ GraphInit
    /\ TrackerInit
    /\ WatcherInit
    /\ graph_initialized = FALSE
    /\ tools_initialized = FALSE
    /\ last = Last("new", P1, NoId, FALSE, NoReport)
    /\ synced_tree = NoTree
    /\ edits = 0
    /\ runs = 0
    /\ tasks = NoCallers

InitCallNext ==
    \/ \E t \in InitCallers : InitEnter(t)
    \/ \E t \in InitCallers : InitLoad(t)
    \/ \E t \in InitCallers : InitScan(t)

InitCallSpec == InitCallInit /\ [][InitCallNext]_vars

(***************************************************************************)
(* A notes directory with a file named *.markdown.  The watcher's handler  *)
(* takes the events of *.md and *.markdown files; the scans of initialize  *)
(* and of sync walk rglob("*.md").                                         *)
(***************************************************************************)
P3 == [folder |-> NoStr, stem |-> S_n1, ext |-> "markdown"]
ExtPaths == Paths \cup {P3}

\* The files a user writes here: one *.md and one *.markdown.
WrittenPaths == {P1, P3}
ExtTexts == {T_A1, T_B1}

ExtOrders == {<<P1, P2, P3>>, <<P3, P2, P1>>}

ExtTrees ==
    {[p \in ExtPaths |-> NoFile],
     [p \in ExtPaths |-> IF p = P1 THEN T_A1 ELSE NoFile]}

\* sync_knowledge_base
ExtSync(force_rebuild) ==
    /\ tools_initialized
    /\ runs < MaxRuns
    /\ \E order \in ExtOrders :
         SetStores(SyncKnowledgeBase(
             IF force_rebuild THEN CleanAllStorage(Stores) ELSE Stores,
             files, force_rebuild, order, synced_tree = files))
    /\ synced_tree' = files
    /\ runs' = runs + 1
    /\ UNCHANGED <<aux_vars, files, notes_index, watcher_vars, graph_initialized,
                   tools_initialized, edits>>

ExtInit ==
    /\ files \in ExtTrees
    /\ snapshot = NoSnapshot
    /\ GraphInit
    /\ TrackerInit
    /\ WatcherInit
    /\ ControlInit

ExtNext ==
    \/ \E p \in WrittenPaths, c \in ExtTexts : UserWrite(p, c)
    \/ ProcessPendingChanges
    \/ ProcessQueue
    \/ \E force_rebuild \in BOOLEAN : ExtSync(force_rebuild)
    \/ InitializeGraph
    \/ InitializeTools

ExtSpec == ExtInit /\ [][ExtNext]_vars

(***************************************************************************)
(* Properties.                                                             *)
(***************************************************************************)
NodesAt(p) == {i \in DOMAIN nodes_by_id : nodes_by_id[i].file_path = p}

IndexedIds ==
    UNION ({category_index[k] : k \in DOMAIN category_index}
           \cup {tag_index[k] : k \in DOMAIN tag_index}
           \cup {hierarchy_index[k] : k \in DOMAIN hierarchy_index})

EdgeEndpoints ==
    {e.source_id : e \in edges_by_id} \cup {e.target_id : e \in edges_by_id}

\* Nothing is waiting in the debouncer or in the processing queue.
Quiescent == pending_changes = << >> /\ processing_queue = << >>

\* The last operation on the stores finished an initialisation, a watcher
\* event or a sync, and nothing is waiting.
QuiescentPoint == Quiescent /\ last.op \in {"init_tools", "watch", "sync"}

\* The id is in no index, no edge and not in the vector collection.
GoneEverywhere(id) ==
    /\ id \notin IndexedIds
    /\ id \notin EdgeEndpoints
    /\ id \notin collection

\* C1: every node is in the category index under its category, in the tag
\* index under each of its tags, and in the hierarchy index under its
\* parent when it has one, whatever additions and removals came before.
C1_IndexesHoldEveryNode ==
    \A i \in DOMAIN nodes_by_id :
        /\ nodes_by_id[i].category \in DOMAIN category_index
        /\ nodes_by_id[i].id \in category_index[nodes_by_id[i].category]
        /\ \A t \in nodes_by_id[i].tags :
              t \in DOMAIN tag_index /\ nodes_by_id[i].id \in tag_index[t]
        /\ nodes_by_id[i].parent_id # NoParent =>
              /\ nodes_by_id[i].parent_id \in DOMAIN hierarchy_index
              /\ nodes_by_id[i].id \in hierarchy_index[nodes_by_id[i].parent_id]

\* The watcher has replaced a node (a removal and an addition), and a node
\* with tags and a parent is in the graph.
C1_Witness ==
    /\ last.op = "watch"
    /\ last.changed
    /\ \E i \in DOMAIN nodes_by_id :
          nodes_by_id[i].tags # {} /\ nodes_by_id[i].parent_id # NoParent

C3_HashCacheIsCurrent ==
    QuiescentPoint =>
        \A i \in DOMAIN nodes_by_id :
            files[nodes_by_id[i].file_path] # NoFile =>
                /\ nodes_by_id[i].file_path \in DOMAIN hash_cache
                /\ hash_cache[nodes_by_id[i].file_path].hash
                     = calculate_content_hash(files[nodes_by_id[i].file_path])

\* C4: at a quiescent point the note mapping maps the path of every node to
\* the node's id, and every entry of the mapping is the path and id of a
\* node.
C4_NoteMappingMatchesNodes ==
    QuiescentPoint =>
        /\ \A i \in DOMAIN nodes_by_id :
              /\ nodes_by_id[i].file_path \in DOMAIN note_to_node_mapping
              /\ note_to_node_mapping[nodes_by_id[i].file_path] = nodes_by_id[i].id
        /\ \A p \in DOMAIN note_to_node_mapping :
              \E i \in NodesAt(p) : nodes_by_id[i].id = note_to_node_mapping[p]

\* C5: find_broken_links() is empty exactly when every edge has its source
\* and its target among the nodes.
C5_BrokenLinksEmptyIffNoDanglingEdge ==
    (find_broken_links(Graph) = {}) <=>
        (\A e \in edges_by_id :
            /\ e.source_id \in NodeIds(nodes_by_id)
            /\ e.target_id \in NodeIds(nodes_by_id))

\* C6: when the watcher has processed the event of a file that had a node
\* and is deleted, and nothing is waiting, no node has the file's path and
\* the node's id is in no index, no edge and not in the vector collection.
C6_DeletedFileLosesItsNode ==
    (/\ graph_initialized
     /\ Quiescent
     /\ last.op = "watch"
     /\ last.old_id # NoId
     /\ files[last.path] = NoFile) =>
        /\ NodesAt(last.path) = {}
        /\ GoneEverywhere(last.old_id)

\* C7: when the watcher has processed a change of a file whose parsed hash
\* differs from its node's, exactly one node has the file's path, with the
\* hash of the current content; the previous id is not a node, in no
\* index, no edge and not in the vector collection; and the note's
\* wiki-links that resolve are edges from the new id.
C7_UpdateReplacesTheNode ==
    (/\ graph_initialized
     /\ Quiescent
     /\ last.op = "watch"
     /\ last.changed
     /\ files[last.path] = last.seen) =>
        /\ Cardinality(NodesAt(last.path)) = 1
        /\ \A i \in NodesAt(last.path) :
              /\ nodes_by_id[i].content_hash
                   = ParseFile(note_id_mapping, last.path, last.seen).content_hash
              /\ \A t \in ParseWikiLinks(last.seen) :
                    ResolveWikiLinkTarget(Graph, t) # NoId =>
                        [source_id |-> nodes_by_id[i].id,
                         target_id |-> ResolveWikiLinkTarget(Graph, t),
                         relation_type |-> "wiki_link"] \in edges_by_id
        /\ last.old_id \notin NodeIds(nodes_by_id)
        /\ GoneEverywhere(last.old_id)

\* The step is the watcher processing an event of the file it processed
\* last, the file being as the watcher saw it then.
SameEventAgain ==
    /\ processing_queue # << >>
    /\ processing_queue' = Tail(processing_queue)
    /\ last'.op = "watch"
    /\ last.op = "watch"
    /\ last.path = Head(processing_queue).file_path
    /\ last.seen = files[last.path]
    /\ last.seen # NoFile

\* C8: processing the same event of a file a second time in a row, the
\* file unchanged in between, leaves the nodes, the edges, the indexes and
\* the vector collection as the first processing left them.
C8_SecondEventChangesNothing == [][SameEventAgain => UNCHANGED graph_vars]_vars

\* C9: when the watcher has processed the events of a rename from a to b,
\* no node has path a and exactly one node has path b.
C9_RenameMovesTheNode ==
    (/\ graph_initialized
     /\ Quiescent
     /\ last.op = "watch"
     /\ last.moved # NoMove
     /\ files[last.moved[1]] = NoFile
     /\ files[last.moved[2]] # NoFile) =>
        /\ NodesAt(last.moved[1]) = {}
        /\ Cardinality(NodesAt(last.moved[2])) = 1

\* C10: a sync without force_rebuild, run when the notes directory is as
\* the previous sync left it, classifies no file as new, modified or
\* deleted, reports total_changes = 0 and leaves the graph unchanged.
C10_SyncOfUnchangedTreeFindsNothing ==
    (/\ last.op = "sync"
     /\ ~last.report.force_rebuild
     /\ last.report.clean_tree) =>
        /\ last.report.new_files = {}
        /\ last.report.modified_files = {}
        /\ last.report.deleted_files = {}
        /\ last.report.total_changes = 0
        /\ ~last.changed

\* C11: when a sync with force_rebuild has completed and the notes directory
\* is as the sync saw it, nodes_by_id has as many nodes as the directory has
\* *.md files, also when two files have the same title, body, category and
\* tags.
C11_ForcedSyncCountsFiles ==
    (/\ last.op = "sync"
     /\ last.report.force_rebuild
     /\ last.report.sync_completed
     /\ synced_tree = files) =>
        Len(nodes_by_id) = Cardinality(ScanVaultFiles(files))

\* The hash was computed from the text c: with or without its front matter.
HashIsOf(content_hash, c) == content_hash[2] \in {Body(c), c}

\* Every node has the path of an existing file and a hash of its content.
ReconciledWithDirectory ==
    \A i \in DOMAIN nodes_by_id :
        /\ files[nodes_by_id[i].file_path] # NoFile
        /\ HashIsOf(nodes_by_id[i].content_hash, files[nodes_by_id[i].file_path])

\* C12: when the graph's initialisation completes, whatever the snapshot it
\* loaded, every node has the file_path of an existing file and the
\* content_hash of that file's current content.
C12_InitReconcilesGraph ==
    [][(~graph_initialized /\ graph_initialized') => ReconciledWithDirectory']_vars

\* C17: the snapshot file is never left truncated or partial, also when the
\* process dies while _save_graph writes it.
C17_SnapshotWriteIsAtomic == snapshot.state # "corrupt"

\* C20: every node's title is a key of title_to_id, and the entry is the id
\* of a node with that title: the node's own id when no other node has the
\* title.
C20_TitleIndexHoldsEveryNode ==
    \A i \in DOMAIN nodes_by_id :
        /\ nodes_by_id[i].title \in TitleKeys(title_to_id)
        /\ \E j \in DOMAIN nodes_by_id :
              /\ nodes_by_id[j].title = nodes_by_id[i].title
              /\ nodes_by_id[j].id = TitleGet(title_to_id, nodes_by_id[i].title)

\* C16: the processing queue never holds more events than its capacity.
C16_QueueStaysWithinCapacity == Len(processing_queue) <= watcher_queue_capacity

\* The snapshot file cannot be loaded whole.
LoadFailed == snapshot.state = "corrupt" \/ snapshot.bad # 0

\* C19: when _load_graph has returned from a file it could not load whole
\* (malformed JSON, or a node or edge record that does not fit), the nodes,
\* the edges, title_to_id and the three indexes are empty.
C19_FailedLoadStartsEmpty ==
    (last.op = "load" /\ LoadFailed) =>
        /\ nodes_by_id = << >>
        /\ edges_by_id = {}
        /\ title_to_id = << >>
        /\ category_index = EmptyMap
        /\ tag_index = EmptyMap
        /\ hierarchy_index = EmptyMap

\* C18: after every operation of the hash tracker, either an error was
\* reported to the caller or hash_cache.json and note_mapping.json hold what
\* the maps in memory hold.
C18_TrackerWriteFailureIsReported ==
    \/ tracker_disk.raised
    \/ /\ tracker_disk.cache = hash_cache
       /\ tracker_disk.mapping = note_to_node_mapping

\* C15: no path is still pending more than debounce_time seconds after the
\* last event on it, whatever events other paths had in between.
C15_EachPathHasItsOwnWindow ==
    \A i \in DOMAIN pending_changes :
        debounce.now - debounce.stamp[pending_changes[i]] <= debounce_time

\* C13: the watcher's consumer is never between the removal and the
\* addition of an update while a tool is between the dict updates and the
\* end of its add_note_from_content.
C13_OneMutationAtATime ==
    ~(tasks.watcher.pc = "removed" /\ tasks.tool.pc = "indexed")

\* C14: when add_note_from_content has returned after the embedding or the
\* collection's add failed, the note's node is not in nodes_by_id, its
\* title not in title_to_id, its id in no index, and the caller got an
\* error.
C14_FailedAddLeavesNothing ==
    (tasks.tool.pc = "idle" /\ tasks.tool.chroma_failed) =>
        /\ ToolNode(tasks.tool.note).id \notin NodeIds(nodes_by_id)
        /\ tasks.tool.note.title \notin TitleKeys(title_to_id)
        /\ ToolNode(tasks.tool.note).id \notin IndexedIds
        /\ tasks.tool.raised

\* The wiki-links of a node's file that resolve to no node.
UnresolvedLinks(g, fs, node) ==
    IF fs[node.file_path] = NoFile THEN {}
    ELSE {t \in ParseWikiLinks(fs[node.file_path]) : ResolveWikiLinkTarget(g, t) = NoId}

\* The entries of the broken-link report whose source is the node.
BrokenEntriesOf(g, node) == {e \in find_broken_links(g) : e.source_id = node.id}

BrokenLinksReported ==
    \A i \in DOMAIN nodes_by_id :
        Cardinality(BrokenEntriesOf(Graph, nodes_by_id[i]))
            >= Cardinality(UnresolvedLinks(Graph, files, nodes_by_id[i]))

\* C21: when initialize has scanned the notes and resolved the wiki-links,
\* find_broken_links has an entry whose source is the node for each
\* wiki-link of the node's file that resolves to no node.
C21_UnresolvedLinksAreReported ==
    [][(~graph_initialized /\ graph_initialized') => BrokenLinksReported']_vars

\* C22: get_hierarchy returns a finite tree for every id, also when the
\* parent links of the nodes form a cycle.
C22_GetHierarchyReturns ==
    last.op = "get_hierarchy" => ~last.report.overflow

\* The graph built from the notes directory by a process that starts with
\* no snapshot, an empty collection and a new parser.
RebuiltGraph(fs) ==
    ScanNotesDirectory([g |-> EmptyGraph, nim |-> EmptyMap, snap |-> NoSnapshot], fs).g

\* The nodes of a graph for a file.
NodesOfFile(g, path) == {g.nodes[i] : i \in {j \in DOMAIN g.nodes : g.nodes[j].file_path = path}}

\* The create tool has returned and the file it wrote is as it wrote it.
ToolCreated ==
    /\ tasks.tool.pc = "idle"
    /\ files[tasks.tool.note.path] =
           CreatedFile(tasks.tool.note.title, tasks.tool.note.content,
                       tasks.tool.note.category, tasks.tool.note.tags)

SameNode(a, b) ==
    /\ a.id = b.id
    /\ a.title = b.title
    /\ a.category = b.category
    /\ a.tags = b.tags
    /\ a.content_hash = b.content_hash

\* C23: the node a rebuild from scratch makes for a file the create tool
\* wrote has the id, title, category, tags and content_hash of the node
\* the tool added.
C23_CreateThenRebuildSameNode ==
    ToolCreated =>
        \E n \in NodesOfFile(RebuiltGraph(files), tasks.tool.note.path) :
            SameNode(n, ToolNode(tasks.tool.note))

\* update_note is called again for the same note with the same text in the
\* same minute as the call before.
SameUpdateAgain ==
    /\ last.op = "update_note"
    /\ last'.op = "update_note"
    /\ runs' = runs + 1
    /\ last'.path = last.path
    /\ last'.text = last.text
    /\ last'.minute = last.minute

\* C24: a second update_note with the same text within the same minute
\* leaves the file, the notes-index entry and the hash-cache entry as the
\* first call left them.
C24_SecondUpdateChangesNothing ==
    [][SameUpdateAgain => UNCHANGED <<files, notes_index, hash_cache>>]_vars

ResultPair(r) == <<r.node_id, r.source_type>>

\* C25: the list unified_search returns has at most limit results, no two
\* with the same node id and source type; each is a candidate with the
\* highest score among the candidates of its node id and source type, and
\* the scores do not increase along the list.
C25_MergedResultsAreRanked ==
    last.op = "unified_search" =>
        /\ Len(last.results) <= last.limit
        /\ \A i, j \in DOMAIN last.results :
              i < j => /\ ResultPair(last.results[i]) # ResultPair(last.results[j])
                       /\ last.results[i].relevance_score
                              >= last.results[j].relevance_score
        /\ \A i \in DOMAIN last.results :
              /\ \E k \in DOMAIN last.all_results : last.all_results[k] = last.results[i]
              /\ \A k \in DOMAIN last.all_results :
                    ResultPair(last.all_results[k]) = ResultPair(last.results[i])
                        => last.all_results[k].relevance_score
                               <= last.results[i].relevance_score

\* A search whose candidates hold the same node and source type twice, the
\* higher score second, and more pairs than the limit lets through.
C25_Witness ==
    /\ last.op = "unified_search"
    /\ Len(last.all_results) = 3
    /\ ResultPair(last.all_results[1]) = ResultPair(last.all_results[2])
    /\ last.all_results[1].relevance_score < last.all_results[2].relevance_score
    /\ ResultPair(last.all_results[3]) # ResultPair(last.all_results[1])
    /\ last.limit = 1
    /\ Len(last.results) = 1

\* C26: search_content_in_files returns at most limit file entries, each
\* with at most 5 matches and total_matches the number of its matches, in
\* the order of non-increasing total_matches; so does the grep sub-query
\* of unified_search with its limit of limit // 2.
C26_ContentSearchIsCapped ==
    last.op \in {"search_content", "unified_grep"} =>
        /\ Len(last.results) <= last.grep_limit
        /\ \A i \in DOMAIN last.results :
              /\ last.results[i].matches <= MaxMatchesPerFile
              /\ last.results[i].total_matches = last.results[i].matches
        /\ \A i, j \in DOMAIN last.results :
              i < j => last.results[i].total_matches >= last.results[j].total_matches

\* A reply that is a decision: a JSON object with action create or update,
\* a confidence between 0 and 1 and a list as reasoning.
IsDecision(r) ==
    /\ r.action \in {"create", "update"}
    /\ r.confidence >= 0
    /\ r.confidence <= 10
    /\ r.reasoning = "list"

\* C27: decide_note_action returns a decision of the fixed shape, and the
\* heuristic's decision when no model answered with a decision.
C27_DecisionHasFixedShape ==
    last.op = "decide" =>
        /\ IsDecision(last.decision)
        /\ (\A i \in DOMAIN last.replies :
                ~(last.replies[i].kind = "json" /\ IsDecision(last.replies[i])))
              => last.decision = FallbackDecision(last.top_score)

\* A step of the tracker that is not update_hash, clear_cache or
\* cleanup_stale_entries, or is update_hash for another key than k.
LeavesKeyAlone(k) ==
    \/ \E p \in Paths, c \in Texts, writable \in BOOLEAN :
            TrackerSetNoteMapping(p, ParseFile(EmptyMap, p, c).id, writable)
    \/ \E p \in Paths, writable \in BOOLEAN : TrackerRemoveNoteMapping(p, writable)
    \/ \E p \in Paths \ {k}, c \in Texts, writable \in BOOLEAN :
            TrackerUpdateHash(p, c, writable)

\* has_content_changed answers for k as an update with the hash of c
\* demands: false for c, true for every content with another hash.
AnswersFor(hc, k, c) ==
    /\ ~has_content_changed(hc, k, c)
    /\ \A d \in Texts :
          calculate_content_hash(d) # calculate_content_hash(c)
              => has_content_changed(hc, k, d)

\* C28: has_content_changed is true for a key without a cached hash; once
\* update_hash has stored the hash of c for k it is false for c and true
\* for every content with another hash, and operations that do not
\* update, clean up or clear k leave its answers as they are.
C28_HasChangedFollowsUpdates ==
    [][\A k \in Paths, c \in Texts :
          /\ k \notin DOMAIN hash_cache => has_content_changed(hash_cache, k, c)
          /\ (\E writable \in BOOLEAN : TrackerUpdateHash(k, c, writable))
                => AnswersFor(hash_cache', k, c)
          /\ LeavesKeyAlone(k)
                => (has_content_changed(hash_cache', k, c)
                        = has_content_changed(hash_cache, k, c))]_vars

\* The hash of one note was updated twice, last with T_B1, and the other
\* note has no cached hash.
C28_Witness ==
    /\ runs >= 2
    /\ P1 \in DOMAIN hash_cache
    /\ P2 \notin DOMAIN hash_cache
    /\ ~has_content_changed(hash_cache, P1, T_B1)
    /\ has_content_changed(hash_cache, P1, T_B2)
    /\ has_content_changed(hash_cache, P2, T_B1)

\* Whether id n is in some set of an index.
Indexed(index, n) == \E k \in DOMAIN index : n \in index[k]

\* h is g with node n removed: n is in no dict, index set, edge or the
\* vector collection, and the other nodes and edges are those of g.
NodeRemoved(g, h, n) ==
    /\ n \notin NodeIds(h.nodes)
    /\ ~Indexed(h.cat, n)
    /\ ~Indexed(h.tag, n)
    /\ ~Indexed(h.hier, n)
    /\ \A e \in h.edges : e.source_id # n /\ e.target_id # n
    /\ n \notin h.coll
    /\ h.nodes = SelectSeq(g.nodes, LAMBDA m : m.id # n)
    /\ h.edges = {e \in g.edges : e.source_id # n /\ e.target_id # n}

\* C29: removing a node of the graph, by the watcher's routine or by the
\* sync's, deletes it from nodes_by_id, from every category, tag and
\* hierarchy index set, from the vector collection, deletes its incident
\* edges, and leaves every other node and edge as it was.
C29_RemovalDeletesTheNodeOnly ==
    \A i \in DOMAIN nodes_by_id :
        /\ NodeRemoved(Graph, RemoveNodeFromGraph(Graph, nodes_by_id[i].id),
                       nodes_by_id[i].id)
        /\ FirstIndex(nodes_by_id,
                      LAMBDA m : m.file_path = nodes_by_id[i].file_path) = i
              => NodeRemoved(Graph,
                             RemoveFileFromGraph(Graph, nodes_by_id[i].file_path),
                             nodes_by_id[i].id)

NoEmptySets(index) == \A k \in DOMAIN index : index[k] # {}

\* Nothing of a removed file is left behind in the stores s: no index key
\* with an empty set, no hash-cache entry and no note mapping for the file.
RemovedCleanly(s, p) ==
    /\ NoEmptySets(s.g.cat)
    /\ NoEmptySets(s.g.tag)
    /\ NoEmptySets(s.g.hier)
    /\ p \notin DOMAIN s.hc
    /\ p \notin DOMAIN s.ntm

\* The stores after the watcher's _remove_node_from_graph, which does not
\* use the hash tracker.
WatcherRemoves(s, node_id) == [s EXCEPT !.g = RemoveNodeFromGraph(s.g, node_id)]

\* C30: after the watcher's or the sync's routine has removed a node of
\* the graph, no key of category_index, tag_index or hierarchy_index maps
\* to an empty set, and neither hash_cache nor the note mapping has an
\* entry for the node's file_path.
C30_RemovalLeavesNothingBehind ==
    \A i \in DOMAIN nodes_by_id :
        /\ RemovedCleanly(WatcherRemoves(Stores, nodes_by_id[i].id),
                          nodes_by_id[i].file_path)
        /\ RemovedCleanly(RemoveFile(Stores, nodes_by_id[i].file_path),
                          nodes_by_id[i].file_path)

\* Whether the cache holds a link from s to t, by its outgoing map.
LinkedOut(lc, s, t) == s \in DOMAIN lc.outgoing_links /\ t \in lc.outgoing_links[s]

\* Whether the cache holds a link from s to t, by its incoming map.
LinkedIn(lc, s, t) == t \in DOMAIN lc.incoming_links /\ s \in lc.incoming_links[t]

\* C38: after any sequence of add_link and remove_note the two directions
\* of the link cache agree, t is in outgoing_links[s] exactly when s is in
\* incoming_links[t], and link_metadata has entries only for pairs that
\* are linked.
C38_LinkDirectionsAgree ==
    /\ \A s, t \in CacheIds :
          LinkedOut(link_cache, s, t) <=> LinkedIn(link_cache, s, t)
    /\ \A k \in DOMAIN link_cache.link_metadata :
          LinkedOut(link_cache, k[1], k[2])

\* remove_note has removed a note that had a link with metadata in each
\* direction, and a link with metadata is left.
C38_Witness ==
    /\ last.op = "remove_note"
    /\ \E s, t \in CacheIds \ {last.id} :
          /\ <<last.id, t>> \in DOMAIN last.before.link_metadata
          /\ <<s, last.id>> \in DOMAIN last.before.link_metadata
    /\ link_cache.link_metadata # EmptyMap

\* The ids that are the source or the target of a link of the cache.
LinkedIds(lc) ==
    {id \in CacheIds : \E x \in CacheIds : LinkedOut(lc, id, x) \/ LinkedOut(lc, x, id)}

\* C39: after any sequence of add_link and remove_note, find_orphans
\* returns exactly the ids that are the source or the target of a current
\* link and have no incoming link.
C39_OrphansAreLinkedIdsWithoutBacklink ==
    find_orphans(link_cache)
        = {id \in LinkedIds(link_cache) :
              ~\E s \in CacheIds : LinkedOut(link_cache, s, id)}

\* Whether an id is a key or a member of a map of the link cache.
Mentions(lc, id) ==
    \/ id \in DOMAIN lc.outgoing_links
    \/ id \in DOMAIN lc.incoming_links
    \/ \E k \in DOMAIN lc.outgoing_links : id \in lc.outgoing_links[k]
    \/ \E k \in DOMAIN lc.incoming_links : id \in lc.incoming_links[k]
    \/ \E k \in DOMAIN lc.link_metadata : id \in {k[1], k[2]}

\* C31: when the watcher or a sync, forced or not, takes ids out of
\* nodes_by_id, the link cache has no entry that mentions one of them
\* afterwards.
C31_LinkCacheFollowsGraph ==
    [][\A id \in NodeIds(nodes_by_id) \ NodeIds(nodes_by_id') :
          ~Mentions(link_cache', id)]_vars

GraphChangingOps == {"init", "watch", "sync", "init_tools"}
C33_SnapshotRoundTrip ==
    last.op \in GraphChangingOps =>
        LET fresh == LoadGraph(EmptyGraph, snapshot)
        IN  /\ fresh.nodes = nodes_by_id
            /\ fresh.edges = edges_by_id
            /\ snapshot.state # "none" =>
                   /\ snapshot.total_nodes = Len(nodes_by_id)
                   /\ snapshot.total_edges = Cardinality(edges_by_id)

\* C34: after any sequence of initialisations, notes taken up through the
\* tools, watcher events and syncs, no two nodes of nodes_by_id have the same
\* file_path.
C34_OneNodePerFile ==
    \A i, j \in 1..Len(nodes_by_id) :
        nodes_by_id[i].file_path = nodes_by_id[j].file_path => i = j

\* C35: no file change is lost by the debouncer.  Once the events have
\* stopped, no timer is left to fire, the timer's thread has finished and
\* the queue is drained, every note file has a node with the hash of the
\* file's present content, also when an event for the file arrived while
\* the timer's thread was delivering a batch that held it.
Drained ==
    /\ graph_initialized
    /\ ~debounce.timer
    /\ debounce.pc = "idle"
    /\ pending_changes = << >>
    /\ processing_queue = << >>

\* A node has the hash of the file's present content (two files with the
\* same title, body, category and tags share one node).
Reflects(p) ==
    \E i \in 1..Len(nodes_by_id) :
        nodes_by_id[i].content_hash = ParseFile(EmptyMap, p, files[p]).content_hash

C35_NoChangeLost ==
    Drained => \A p \in Paths : files[p] # NoFile => Reflects(p)

\* C36: initialisation runs at most once.  However the calls of initialize
\* overlap, the snapshot is loaded once and the notes directory is scanned
\* (and its notes added to the vector store) once, and when every call has
\* returned the graph is the one a single call leaves.
SingleCall ==
    ScanNotesDirectory([g |-> EmptyGraph, nim |-> EmptyMap, snap |-> NoSnapshot],
                       files)

AllReturned == \A t \in InitCallers : tasks.pc[t] = "done"

C36_InitialisedOnce ==
    /\ tasks.loads <= 1
    /\ tasks.scans <= 1
    /\ AllReturned => World = SingleCall

\* C37: the watcher and sync agree on which files are notes.  A sync
\* classifies as deleted only files that are not on disk, so a file that
\* the watcher added to the graph and that is still on disk, *.md or
\* *.markdown, is not in deleted_files and keeps its node.
C37_SyncKeepsWatchedNotes ==
    [][runs' # runs /\ last'.op = "sync" =>
          \A p \in DOMAIN files :
              files[p] # NoFile => p \notin last'.report.deleted_files]_vars

\* C40: in the report of a sync, graph_nodes_before is the number of nodes
\* when sync was invoked, graph_nodes_after the number when it returns,
\* total_changes the number of new, modified and deleted files, and the four
\* classes are disjoint and cover the vault files and the graph files.
Classes(report) ==
    <<report.new_files, report.modified_files, report.deleted_files,
      report.unchanged_files>>

Partition(classes, whole) ==
    /\ UNION {classes[i] : i \in DOMAIN classes} = whole
    /\ \A i, j \in DOMAIN classes : i # j => classes[i] \cap classes[j] = {}

C40_SyncReportCounts ==
    [][runs' # runs /\ last'.op = "sync" =>
          LET report == last'.report
          IN  /\ report.graph_nodes_before = Len(nodes_by_id)
              /\ report.graph_nodes_after = Len(nodes_by_id')
              /\ report.total_changes =
                     Cardinality(report.new_files) + Cardinality(report.modified_files)
                         + Cardinality(report.deleted_files)
              /\ Partition(Classes(report),
                           ScanVaultFiles(files) \cup
                               IF report.force_rebuild THEN {} ELSE GraphFiles(Graph))]_vars

====
